---- MODULE Spec2Model ----
(***************************************************************************)
(* Conflict parser and merge resolver of the lingo.dev CLI                 *)
(* (packages/cli/src/cli/utils/conflict-parser.ts, merge-resolver.ts).     *)
(*                                                                         *)
(* A JavaScript string is a sequence of one-character strings, so that the *)
(* regular expressions, split, join, trim, JSON.parse and JSON.stringify   *)
(* of the source are computed character by character.                      *)
(***************************************************************************)
EXTENDS Integers, Sequences, FiniteSets, TLC

VARIABLES
    content,    \* the text handed to a ConflictParser operation
    called,     \* the operation that ran last ("none" before any)
    returned,   \* what that operation returned
    section,    \* the conflict section handed to resolveConflict
    path,       \* the path of the file being resolved
    opts,       \* the ResolverOptions the ConflictResolver was constructed with
    disk,       \* the file system: path -> [text, size]
    outcome,    \* the ResolutionResult of the last resolveFile call
    trace,      \* the file-system calls made so far, in order
    conflictedFiles,    \* the files the merge-resolve command found, in order
    processed,  \* the number of them its loop has gone through
    resolvedCount,      \* the counters of the command
    failedCount,
    running,    \* the resolveFile calls in progress: id -> the locals of the call
    initial     \* the file system before those calls, kept for comparison

\* the variables of the merge-resolve command and of calls in progress
commandVars == <<conflictedFiles, processed, resolvedCount, failedCount, running, initial>>

vars == <<content, called, returned, section, path, opts, disk, outcome, trace,
          conflictedFiles, processed, resolvedCount, failedCount, running, initial>>

(***************************************************************************)
(* Characters and strings                                                  *)
(***************************************************************************)
LF == "\n"
CR == "\r"
SP == " "
TAB == "\t"

\* the characters the regular expression class \s matches, of those modelled
WhiteSpace == {SP, TAB, LF, CR}

\* the characters "." does not match
LineTerminators == {LF, CR}

Rep(c, n) == [i \in 1..n |-> c]

Max(a, b) == IF a > b THEN a ELSE b

Min(a, b) == IF a < b THEN a ELSE b

\* Array.prototype.slice(from, to) / String.prototype.slice, zero-based, to exclusive
Slice(s, from, to) ==
    LET f == Max(from, 0)
        t == Min(to, Len(s))
    IN  IF t <= f THEN <<>> ELSE SubSeq(s, f + 1, t)

\* String.prototype.includes
Includes(s, token) ==
    \E i \in 0..(Len(s) - Len(token)) : Slice(s, i, i + Len(token)) = token

StartsWith(s, prefix) == Slice(s, 0, Len(prefix)) = prefix

EndsWith(s, suffix) ==
    Len(s) >= Len(suffix) /\ Slice(s, Len(s) - Len(suffix), Len(s)) = suffix

RECURSIVE ConcatRange(_, _, _)
ConcatRange(pieces, lo, hi) ==
    IF lo > hi THEN <<>>
    ELSE IF lo = hi THEN pieces[lo]
    ELSE ConcatRange(pieces, lo, (lo + hi) \div 2)
             \o ConcatRange(pieces, ((lo + hi) \div 2) + 1, hi)

\* the concatenation of a sequence of strings
Concat(pieces) == ConcatRange(pieces, 1, Len(pieces))

\* Array.prototype.join
Join(lines, sep) ==
    IF lines = <<>> THEN <<>>
    ELSE Concat([k \in 1..(2 * Len(lines) - 1) |->
                    IF k % 2 = 1 THEN lines[(k + 1) \div 2] ELSE sep])

\* the least element of a set of indices, none when the set is empty
MinOf(indices, none) ==
    IF indices = {} THEN none ELSE CHOOSE k \in indices : \A other \in indices : k <= other

\* the greatest element of a set of indices, none when the set is empty
MaxOf(indices, none) ==
    IF indices = {} THEN none ELSE CHOOSE k \in indices : \A other \in indices : other <= k

RECURSIVE FindIn(_, _, _)
FindInOr(s, i, class, found) ==
    IF found > 0 THEN found ELSE FindIn(s, i + 16, class)

\* the first index from i on whose character is in the class, Len(s) + 1 if
\* none; the text is searched sixteen characters at a time
FindIn(s, i, class) ==
    IF i > Len(s) THEN Len(s) + 1
    ELSE IF s[i] \in class THEN i
    ELSE FindInOr(s, i, class, MinOf({k \in i..Min(i + 15, Len(s)) : s[k] \in class}, 0))

RECURSIVE SkipIn(_, _, _)
SkipInOr(s, i, class, found) ==
    IF found > 0 THEN found ELSE SkipIn(s, i + 16, class)

\* the first index from i on whose character is not in the class, Len(s) + 1 if none
SkipIn(s, i, class) ==
    IF i > Len(s) THEN Len(s) + 1
    ELSE IF s[i] \notin class THEN i
    ELSE SkipInOr(s, i, class, MinOf({k \in i..Min(i + 15, Len(s)) : s[k] \notin class}, 0))

RECURSIVE LastNotIn(_, _, _)
LastNotInOr(s, i, class, found) ==
    IF found > 0 THEN found ELSE LastNotIn(s, i - 16, class)

\* the last index before i whose character is not in the class, 0 if none
LastNotIn(s, i, class) ==
    IF i <= 1 THEN 0
    ELSE IF s[i - 1] \notin class THEN i - 1
    ELSE LastNotInOr(s, i, class, MaxOf({k \in Max(i - 16, 1)..(i - 1) : s[k] \notin class}, 0))

RECURSIVE SplitFrom(_, _, _)
\* the lines of s from index i on; a CR right before the separating LF is dropped
SplitFrom(s, i, acc) ==
    LET j == FindIn(s, i, {LF})
        cr == IF j <= Len(s) /\ j > i /\ s[j - 1] = CR THEN 1 ELSE 0
    IN  IF j > Len(s) THEN Append(acc, Slice(s, i - 1, Len(s)))
        ELSE SplitFrom(s, j + 1, Append(acc, Slice(s, i - 1, j - 1 - cr)))

\* content.split(/\r?\n/)
SplitLines(s) == SplitFrom(s, 1, <<>>)

(***************************************************************************)
(* ConflictParser: the marker grammars                                     *)
(***************************************************************************)
MarkerWidth == 7

\* /^c{7} (.+)$/ : seven c, a space, a label of one or more non-terminators
LabelledMarker(line, c) ==
    /\ Len(line) >= MarkerWidth + 2
    /\ \A i \in 1..MarkerWidth : line[i] = c
    /\ line[MarkerWidth + 1] = SP
    /\ \A i \in (MarkerWidth + 2)..Len(line) : line[i] \notin LineTerminators

CONFLICT_START(line) == LabelledMarker(line, "<")

CONFLICT_MIDDLE(line) == line = Rep("=", MarkerWidth)

CONFLICT_BASE(line) == LabelledMarker(line, "|")

CONFLICT_END(line) == LabelledMarker(line, ">")

(***************************************************************************)
(* ConflictParser.hasConflictMarkers                                       *)
(***************************************************************************)
RECURSIVE CountMarkers(_, _, _)
\* the for loop: the flags and counters after the lines from index i on
CountMarkers(lines, i, acc) ==
    IF i > Len(lines) THEN acc
    ELSE LET line == lines[i] IN
         CountMarkers(lines, i + 1,
            IF CONFLICT_START(line)
            THEN [acc EXCEPT !.hasStart = TRUE, !.startCount = @ + 1]
            ELSE IF CONFLICT_MIDDLE(line)
            THEN [acc EXCEPT !.hasMiddle = TRUE]
            ELSE IF CONFLICT_END(line)
            THEN [acc EXCEPT !.hasEnd = TRUE, !.endCount = @ + 1]
            ELSE acc)

hasConflictMarkers_substring(text) ==
    /\ Includes(text, Rep("<", MarkerWidth))
    /\ Includes(text, Rep("=", MarkerWidth))
    /\ Includes(text, Rep(">", MarkerWidth))

hasConflictMarkers_uncounted(text) ==
    LET c == CountMarkers(SplitLines(text), 1,
                 [hasStart |-> FALSE, hasMiddle |-> FALSE, hasEnd |-> FALSE,
                  startCount |-> 0, endCount |-> 0])
    IN  c.hasStart /\ c.hasMiddle /\ c.hasEnd

hasConflictMarkers(text) ==
    LET c == CountMarkers(SplitLines(text), 1,
                 [hasStart |-> FALSE, hasMiddle |-> FALSE, hasEnd |-> FALSE,
                  startCount |-> 0, endCount |-> 0])
    IN  c.hasStart /\ c.hasMiddle /\ c.hasEnd /\ c.startCount = c.endCount

(***************************************************************************)
(* ConflictParser.parseConflicts / parseConflictSection                    *)
(* Indices are zero-based as in the source; lines[i + 1] is line i.        *)
(* A ConflictSection is [ours, theirs, base, startLine, endLine]; base is  *)
(* <<>> when undefined and <<text>> when defined.                          *)
(***************************************************************************)
RECURSIVE FindMarkers_lastEnd(_, _, _)
FindMarkers_lastEnd(lines, i, idx) ==
    IF i >= Len(lines) THEN idx
    ELSE IF CONFLICT_MIDDLE(lines[i + 1]) /\ idx.middleIndex = -1
         THEN FindMarkers_lastEnd(lines, i + 1, [idx EXCEPT !.middleIndex = i])
    ELSE IF CONFLICT_BASE(lines[i + 1]) /\ idx.baseIndex = -1
         THEN FindMarkers_lastEnd(lines, i + 1, [idx EXCEPT !.baseIndex = i])
    ELSE IF CONFLICT_END(lines[i + 1])
         THEN FindMarkers_lastEnd(lines, i + 1, [idx EXCEPT !.endIndex = i])
    ELSE FindMarkers_lastEnd(lines, i + 1, idx)

RECURSIVE FindMarkers(_, _, _)
\* the for loop of parseConflictSection from index i on
FindMarkers(lines, i, idx) ==
    IF i >= Len(lines) THEN idx
    ELSE IF CONFLICT_MIDDLE(lines[i + 1]) /\ idx.middleIndex = -1
         THEN FindMarkers(lines, i + 1, [idx EXCEPT !.middleIndex = i])
    ELSE IF CONFLICT_BASE(lines[i + 1]) /\ idx.baseIndex = -1
         THEN FindMarkers(lines, i + 1, [idx EXCEPT !.baseIndex = i])
    ELSE IF CONFLICT_END(lines[i + 1])
         THEN [idx EXCEPT !.endIndex = i]
    ELSE FindMarkers(lines, i + 1, idx)

NoSection == [none |-> TRUE]

parseConflictSection(lines, startIndex) ==
    LET idx == FindMarkers(lines, startIndex + 1,
                   [middleIndex |-> -1, baseIndex |-> -1, endIndex |-> -1])
        oursEnd == IF idx.baseIndex # -1 THEN idx.baseIndex ELSE idx.middleIndex
        theirsStart == idx.middleIndex + 1
    IN  IF idx.middleIndex = -1 \/ idx.endIndex = -1 THEN NoSection
        ELSE [ours      |-> Join(Slice(lines, startIndex + 1, oursEnd), <<LF>>),
              theirs    |-> Join(Slice(lines, theirsStart, idx.endIndex), <<LF>>),
              base      |-> IF idx.baseIndex # -1
                            THEN <<Join(Slice(lines, idx.baseIndex + 1, idx.middleIndex), <<LF>>)>>
                            ELSE <<>>,
              startLine |-> startIndex,
              endLine   |-> idx.endIndex]

RECURSIVE ParseFrom_overlapping(_, _, _)
ParseFrom_overlapping(lines, i, conflicts) ==
    IF i >= Len(lines) THEN conflicts
    ELSE IF CONFLICT_START(lines[i + 1]) /\ parseConflictSection(lines, i) # NoSection
         THEN ParseFrom_overlapping(lines, i + 1,
                                    Append(conflicts, parseConflictSection(lines, i)))
         ELSE ParseFrom_overlapping(lines, i + 1, conflicts)

RECURSIVE ParseFrom(_, _, _)
\* the while loop of parseConflicts from index i on
ParseFrom(lines, i, conflicts) ==
    IF i >= Len(lines) THEN conflicts
    ELSE IF CONFLICT_START(lines[i + 1])
         THEN LET conflict == parseConflictSection(lines, i) IN
              IF conflict # NoSection
              THEN ParseFrom(lines, conflict.endLine + 1, Append(conflicts, conflict))
              ELSE ParseFrom(lines, i + 1, conflicts)
         ELSE ParseFrom(lines, i + 1, conflicts)

parseConflicts(text) == ParseFrom(SplitLines(text), 0, <<>>)

(***************************************************************************)
(* ConflictParser.resolveConflicts                                         *)
(* A call either returns a value or throws: Return(v) and Thrown.          *)
(* The resolver callback is a function from the sections of the text to    *)
(* the outcome of the callback on each; resolutions[i] is its outcome on   *)
(* conflicts[i], and an exception of the resolver leaves resolveConflicts. *)
(***************************************************************************)
Return(v) == [thrown |-> FALSE, value |-> v]

Thrown == [thrown |-> TRUE, value |-> <<>>]

Splice_shortDelete(lines, start, deleteCount, items) ==
    Slice(lines, 0, start) \o items \o Slice(lines, start + deleteCount - 1, Len(lines))

\* lines.splice(start, deleteCount, ...items)
Splice(lines, start, deleteCount, items) ==
    Slice(lines, 0, start) \o items \o Slice(lines, start + deleteCount, Len(lines))

RECURSIVE SpliceFrom_swallow(_, _, _, _)
SpliceFrom_swallow(lines, conflicts, resolutions, i) ==
    IF i < 1 THEN Return(Join(lines, <<LF>>))
    ELSE IF resolutions[i].thrown
    THEN SpliceFrom_swallow(lines, conflicts, resolutions, i - 1)
    ELSE SpliceFrom_swallow(
             Splice(lines, conflicts[i].startLine,
                    conflicts[i].endLine - conflicts[i].startLine + 1,
                    SplitLines(resolutions[i].value)),
             conflicts, resolutions, i - 1)

RECURSIVE SpliceFrom_forward(_, _, _, _)
SpliceFrom_forward(lines, conflicts, resolutions, i) ==
    IF i < 1 THEN Return(Join(lines, <<LF>>))
    ELSE IF resolutions[Len(conflicts) - i + 1].thrown THEN Thrown
    ELSE SpliceFrom_forward(
             Splice(lines, conflicts[Len(conflicts) - i + 1].startLine,
                    conflicts[Len(conflicts) - i + 1].endLine
                        - conflicts[Len(conflicts) - i + 1].startLine + 1,
                    SplitLines(resolutions[Len(conflicts) - i + 1].value)),
             conflicts, resolutions, i - 1)

RECURSIVE SpliceFrom(_, _, _, _)
\* the for loop of resolveConflicts, from conflict i (one-based) down to the
\* first, and the join of the lines it leaves
SpliceFrom(lines, conflicts, resolutions, i) ==
    IF i < 1 THEN Return(Join(lines, <<LF>>))
    ELSE IF resolutions[i].thrown THEN Thrown
    ELSE SpliceFrom(
             Splice(lines, conflicts[i].startLine,
                    conflicts[i].endLine - conflicts[i].startLine + 1,
                    SplitLines(resolutions[i].value)),
             conflicts, resolutions, i - 1)

\* the sections of a text, the domain of a resolver callback for it
SectionsOf(text) == {parseConflicts(text)[i] : i \in 1..Len(parseConflicts(text))}

\* the lines with every conflict replaced by what the resolver makes of it
SpliceAll(lines, conflicts, resolver) ==
    SpliceFrom(lines, conflicts,
               [i \in 1..Len(conflicts) |-> resolver[conflicts[i]]], Len(conflicts))

resolveConflicts(text, resolver) ==
    SpliceAll(SplitLines(text), parseConflicts(text), resolver)

(***************************************************************************)
(* JavaScript values.  A value is [t, s, kv]: t its kind, s the characters *)
(* of a string (or the literal of a number or boolean), kv the properties  *)
(* of an object in insertion order, each [k |-> key, v |-> value].         *)
(* The texts of the model hold no bracket, so no value is an array, and no *)
(* key is an array index except those a string spreads into; number        *)
(* literals are written the way JSON.stringify prints them.                *)
(***************************************************************************)
QUOTE == "\""
APOSTROPHE == "'"
BACKSLASH == "\\"

JUndefined == [t |-> "undefined", s |-> <<>>, kv |-> <<>>]

JNull == [t |-> "null", s |-> <<>>, kv |-> <<>>]

JBool(b) ==
    [t |-> "boolean",
     s |-> IF b THEN <<"t", "r", "u", "e">> ELSE <<"f", "a", "l", "s", "e">>,
     kv |-> <<>>]

JNum(literal) == [t |-> "number", s |-> literal, kv |-> <<>>]

JStr(chars) == [t |-> "string", s |-> chars, kv |-> <<>>]

JObj(props) == [t |-> "object", s |-> <<>>, kv |-> props]

\* typeof v
TypeOf(v) == IF v.t = "null" THEN "object" ELSE v.t

\* whether v is truthy: !v is its negation
Truthy(v) ==
    CASE v.t = "undefined" -> FALSE
      [] v.t = "null" -> FALSE
      [] v.t = "boolean" -> v.s = JBool(TRUE).s
      [] v.t = "number" -> \E i \in 1..Len(v.s) : v.s[i] \in {"1", "2", "3", "4", "5", "6", "7", "8", "9"}
      [] v.t = "string" -> v.s # <<>>
      [] OTHER -> TRUE

\* value && typeof value === "object" && !Array.isArray(value)
IsObject(v) == v.t = "object"

\* key in obj
HasKey(props, key) == \E i \in 1..Len(props) : props[i].k = key

\* obj[key], undefined when absent
GetKey(props, key) ==
    IF HasKey(props, key)
    THEN props[CHOOSE i \in 1..Len(props) : props[i].k = key].v
    ELSE JUndefined

\* obj[key] = val: an existing key keeps its place, a new key goes last
SetKey(props, key, val) ==
    IF HasKey(props, key)
    THEN [i \in 1..Len(props) |->
              IF props[i].k = key THEN [k |-> key, v |-> val] ELSE props[i]]
    ELSE Append(props, [k |-> key, v |-> val])

(***************************************************************************)
(* JSON.parse                                                              *)
(***************************************************************************)
Digits == {"0", "1", "2", "3", "4", "5", "6", "7", "8", "9"}

JsonWhiteSpace == {SP, TAB, LF, CR}

ParseFail == [ok |-> FALSE, pos |-> 0, val |-> JUndefined]

ParseOk(pos, val) == [ok |-> TRUE, pos |-> pos, val |-> val]

\* the first index from i on that holds no white space
SkipWs(s, i) == SkipIn(s, i, JsonWhiteSpace)

SkipDigits(s, i) == SkipIn(s, i, Digits)

\* the character an escape sequence \e stands for; <<>> for one not modelled
Unescape(e) ==
    CASE e = QUOTE -> <<QUOTE>>
      [] e = BACKSLASH -> <<BACKSLASH>>
      [] e = "/" -> <<"/">>
      [] e = "n" -> <<LF>>
      [] e = "r" -> <<CR>>
      [] e = "t" -> <<TAB>>
      [] OTHER -> <<>>

\* whether index j of the string literal that starts at index i is the second
\* character of an escape: an odd number of backslashes stands right before it
Escaped(s, i, j) ==
    /\ j > i
    /\ s[j - 1] = BACKSLASH
    /\ (j - 1 - Max(LastNotIn(s, j, {BACKSLASH}), i - 1)) % 2 = 1

RECURSIVE ClosingQuote(_, _, _)
ClosingQuoteAt(s, i, q) ==
    IF q <= Len(s) /\ Escaped(s, i, q) THEN ClosingQuote(s, i, q + 1) ELSE q

\* the first quote from index from on that is not escaped, Len(s) + 1 if none
ClosingQuote(s, i, from) == ClosingQuoteAt(s, i, FindIn(s, from, {QUOTE}))

StringCharsTo(s, i, q) ==
    IF q > Len(s) THEN ParseFail
    ELSE IF \A j \in i..(q - 1) : s[j] \notin {LF, CR, TAB, BACKSLASH}
         THEN ParseOk(q + 1, Slice(s, i - 1, q - 1))
    ELSE IF \E j \in i..(q - 1) :
                \/ s[j] \in {LF, CR, TAB}
                \/ Escaped(s, i, j) /\ Unescape(s[j]) = <<>>
         THEN ParseFail
    ELSE ParseOk(q + 1,
             Concat([k \in 1..(q - i) |->
                        IF Escaped(s, i, i + k - 1) THEN Unescape(s[i + k - 1])
                        ELSE IF s[i + k - 1] = BACKSLASH THEN <<>>
                        ELSE <<s[i + k - 1]>>]))

\* the characters of a string literal from index i (after its opening quote)
\* to its closing quote
StringChars(s, i) == StringCharsTo(s, i, ClosingQuote(s, i, i))

\* the number literal from index i to index d, exclusive
NumberTo(s, i, d) == ParseOk(d, JNum(Slice(s, i - 1, d - 1)))

\* the digits of an exponent from index e on: [0-9]+
ExponentDigits(s, i, e) ==
    IF SkipDigits(s, e) > e THEN NumberTo(s, i, SkipDigits(s, e)) ELSE ParseFail

\* the optional exponent at index c: ([eE] [+-]? [0-9]+)?
ExponentPart(s, i, c) ==
    IF c <= Len(s) /\ s[c] \in {"e", "E"}
    THEN ExponentDigits(s, i, IF c + 1 <= Len(s) /\ s[c + 1] \in {"+", "-"}
                              THEN c + 2 ELSE c + 1)
    ELSE NumberTo(s, i, c)

\* the optional fraction at index b: (. [0-9]+)?
FractionPart(s, i, b) ==
    IF b <= Len(s) /\ s[b] = "."
    THEN IF SkipDigits(s, b + 1) > b + 1
         THEN ExponentPart(s, i, SkipDigits(s, b + 1))
         ELSE ParseFail
    ELSE ExponentPart(s, i, b)

\* the integer part at index a: 0 | [1-9][0-9]*
IntegerPart(s, i, a) ==
    IF a > Len(s) \/ s[a] \notin Digits THEN ParseFail
    ELSE FractionPart(s, i, IF s[a] = "0" THEN a + 1 ELSE SkipDigits(s, a))

\* a number literal at index i: -? (0 | [1-9][0-9]*) (. [0-9]+)? ([eE] [+-]? [0-9]+)?
ParseNumber(s, i) == IntegerPart(s, i, IF s[i] = "-" THEN i + 1 ELSE i)

RECURSIVE ParseValue(_, _)
RECURSIVE ParseMembers(_, _, _)

\* what follows a member of an object: a comma and the next member, or the
\* closing brace at index next
MemberEnd(s, props, next) ==
    IF next > Len(s) THEN ParseFail
    ELSE IF s[next] = "," THEN ParseMembers(s, SkipWs(s, next + 1), props)
    ELSE IF s[next] = "}" THEN ParseOk(next + 1, JObj(props))
    ELSE ParseFail

\* a member whose key is k and whose value parsed as val
MemberAfterValue(s, props, k, val) ==
    IF ~val.ok THEN ParseFail
    ELSE MemberEnd(s, SetKey(props, k, val.val), SkipWs(s, val.pos))

\* a member whose key parsed as key: a colon and a value follow
MemberAfterKey(s, props, key) ==
    IF ~key.ok \/ SkipWs(s, key.pos) > Len(s) \/ s[SkipWs(s, key.pos)] # ":"
    THEN ParseFail
    ELSE MemberAfterValue(s, props, key.val, ParseValue(s, SkipWs(s, key.pos) + 1))

\* the members of an object from index i, the start of a member
ParseMembers(s, i, props) ==
    IF i > Len(s) \/ s[i] # QUOTE THEN ParseFail
    ELSE MemberAfterKey(s, props, StringChars(s, i + 1))

\* a value from index i on, after white space
ParseValue(s, i) ==
    LET j == SkipWs(s, i) IN
    IF j > Len(s) THEN ParseFail
    ELSE IF s[j] = "{"
         THEN IF SkipWs(s, j + 1) <= Len(s) /\ s[SkipWs(s, j + 1)] = "}"
              THEN ParseOk(SkipWs(s, j + 1) + 1, JObj(<<>>))
              ELSE ParseMembers(s, SkipWs(s, j + 1), <<>>)
    ELSE IF s[j] = QUOTE
         THEN LET str == StringChars(s, j + 1) IN
              IF str.ok THEN ParseOk(str.pos, JStr(str.val)) ELSE ParseFail
    ELSE IF s[j] \in Digits \cup {"-"} THEN ParseNumber(s, j)
    ELSE IF Slice(s, j - 1, j + 3) = JBool(TRUE).s THEN ParseOk(j + 4, JBool(TRUE))
    ELSE IF Slice(s, j - 1, j + 4) = JBool(FALSE).s THEN ParseOk(j + 5, JBool(FALSE))
    ELSE IF Slice(s, j - 1, j + 3) = <<"n", "u", "l", "l">> THEN ParseOk(j + 4, JNull)
    ELSE ParseFail

\* the value r parsed from the text when only white space follows it
WholeText(text, r) ==
    IF r.ok /\ SkipWs(text, r.pos) > Len(text) THEN Return(r.val) ELSE Thrown

\* JSON.parse(text): the value, or a SyntaxError
JSON_parse(text) == WholeText(text, ParseValue(text, 1))

(***************************************************************************)
(* JSON.stringify(value, null, 10)                                         *)
(***************************************************************************)
StringifyIndent == 10

FragmentIndent == 8

\* the escape of one character inside a string literal
Escape(c) ==
    CASE c = QUOTE -> <<BACKSLASH, QUOTE>>
      [] c = BACKSLASH -> <<BACKSLASH, BACKSLASH>>
      [] c = LF -> <<BACKSLASH, "n">>
      [] c = CR -> <<BACKSLASH, "r">>
      [] c = TAB -> <<BACKSLASH, "t">>
      [] OTHER -> <<c>>

EscapeAll(chars) == Concat([i \in 1..Len(chars) |-> Escape(chars[i])])

QuoteString(chars) == <<QUOTE>> \o EscapeAll(chars) \o <<QUOTE>>

\* the properties JSON.stringify prints: those whose value is not undefined
Printed(props) == SelectSeq(props, LAMBDA p : p.v.t # "undefined")

RECURSIVE Stringify(_, _)
\* the text of v printed at the given indentation
Stringify(v, indent) ==
    CASE v.t = "string" -> QuoteString(v.s)
      [] v.t = "number" -> v.s
      [] v.t = "boolean" -> v.s
      [] v.t = "null" -> <<"n", "u", "l", "l">>
      [] v.t = "object" ->
            IF Printed(v.kv) = <<>> THEN <<"{", "}">>
            ELSE <<"{", LF>>
                 \o Join([i \in 1..Len(Printed(v.kv)) |->
                            Rep(SP, indent + StringifyIndent)
                                \o QuoteString(Printed(v.kv)[i].k) \o <<":", SP>>
                                \o Stringify(Printed(v.kv)[i].v, indent + StringifyIndent)],
                         <<",", LF>>)
                 \o <<LF>> \o Rep(SP, indent) \o <<"}">>
      [] OTHER -> <<>>

JSON_stringify(value) == Stringify(value, 0)

(***************************************************************************)
(* String operations of merge-resolver.ts                                  *)
(***************************************************************************)
TrimStart(s) == Slice(s, SkipIn(s, 1, WhiteSpace) - 1, Len(s))

TrimEnd(s) == Slice(s, 0, LastNotIn(s, Len(s) + 1, WhiteSpace))

\* String.prototype.trim
Trim(s) == TrimEnd(TrimStart(s))

\* s.replace(/c/g, replacement) for a single character c
ReplaceChar(s, c, replacement) ==
    Concat([i \in 1..Len(s) |-> IF s[i] = c THEN replacement ELSE <<s[i]>>])

RECURSIVE SplitNewlineFrom(_, _, _)
SplitNewlineFrom(s, i, acc) ==
    LET j == FindIn(s, i, {LF}) IN
    IF j > Len(s) THEN Append(acc, Slice(s, i - 1, Len(s)))
    ELSE SplitNewlineFrom(s, j + 1, Append(acc, Slice(s, i - 1, j - 1)))

\* fragment.split(/\n/)
SplitNewline(s) == SplitNewlineFrom(s, 1, <<>>)

\* the first index from i on that \s does not match
SkipSpace(s, i) == SkipIn(s, i, WhiteSpace)

\* the characters \w matches
WordChars ==
    {"a", "b", "c", "d", "e", "f", "g", "h", "i", "j", "k", "l", "m",
     "n", "o", "p", "q", "r", "s", "t", "u", "v", "w", "x", "y", "z",
     "A", "B", "C", "D", "E", "F", "G", "H", "I", "J", "K", "L", "M",
     "N", "O", "P", "Q", "R", "S", "T", "U", "V", "W", "X", "Y", "Z",
     "0", "1", "2", "3", "4", "5", "6", "7", "8", "9", "_"}

SkipWord(s, i) == SkipIn(s, i, WordChars)

\* s.replace(/(\w+):/g, '"$1":'): a quote goes before every maximal run of
\* word characters that a colon follows, and before that colon
QuoteKeys(s) ==
    Concat([i \in 1..Len(s) |->
               IF /\ s[i] \in WordChars
                  /\ (i = 1 \/ s[i - 1] \notin WordChars)
                  /\ SkipWord(s, i) <= Len(s) /\ s[SkipWord(s, i)] = ":"
               THEN <<QUOTE, s[i]>>
               ELSE IF s[i] = ":" /\ i > 1 /\ s[i - 1] \in WordChars
               THEN <<QUOTE, ":">>
               ELSE <<s[i]>>])

\* s.replace(/,\s*\n\s*}/g, "}") and s.replace(/,\s*\n\s*]/g, "]"): a comma
\* goes, with the white space after it, when that white space holds a line
\* feed and the closer follows it
DropTrailingCommas(s, closer) ==
    LET matched == {i \in 1..Len(s) :
                       /\ s[i] = ","
                       /\ SkipSpace(s, i + 1) <= Len(s)
                       /\ s[SkipSpace(s, i + 1)] = closer
                       /\ \E k \in (i + 1)..(SkipSpace(s, i + 1) - 1) : s[k] = LF}
        dropped == UNION {i..(SkipSpace(s, i + 1) - 1) : i \in matched}
    IN  Concat([i \in 1..Len(s) |-> IF i \in dropped THEN <<>> ELSE <<s[i]>>])

\* s.replace(/;$/g, "")
DropFinalSemicolon(s) ==
    IF s # <<>> /\ s[Len(s)] = ";" THEN SubSeq(s, 1, Len(s) - 1) ELSE s

\* s.replace(/^["']|["']$/g, "")
StripQuotes(s) ==
    LET first == IF s # <<>> /\ s[1] \in {QUOTE, APOSTROPHE} THEN 1 ELSE 0
        last == IF Len(s) >= 2 /\ s[Len(s)] \in {QUOTE, APOSTROPHE} THEN 1 ELSE 0
    IN  Slice(s, first, Len(s) - last)

\* s.replace(/\\"/g, '"'): a backslash goes when a quote follows it
UnescapeQuotes(s) ==
    Concat([i \in 1..Len(s) |->
               IF s[i] = BACKSLASH /\ i < Len(s) /\ s[i + 1] = QUOTE THEN <<>> ELSE <<s[i]>>])

\* the index of the first quote from i on, Len(s) + 1 if none
NextQuote(s, i) == FindIn(s, i, {QUOTE})

\* the first index from i on that "." does not match
SkipLine(s, i) == FindIn(s, i, LineTerminators)

NoMatch == [matched |-> FALSE, key |-> <<>>, value |-> <<>>]

\* /"([^"]+)"\s*:\s*(.+)/ tried at index p: the key runs to the next quote,
\* \s* gives back white space until (.+) has a character to start on; index 0
\* stands for no index and matches nothing
MatchKeyValueAt(s, p) ==
    LET q == NextQuote(s, p + 1)
        colon == SkipSpace(s, q + 1)
        rest == SkipSpace(s, colon + 1)
        starts == {k \in (colon + 1)..rest : k <= Len(s) /\ s[k] \notin LineTerminators}
        start == CHOOSE k \in starts : \A other \in starts : other <= k
    IN  IF /\ p > 0 /\ s[p] = QUOTE
           /\ q <= Len(s) /\ q > p + 1
           /\ colon <= Len(s) /\ s[colon] = ":"
           /\ starts # {}
        THEN [matched |-> TRUE, key |-> Slice(s, p, q - 1),
              value |-> Slice(s, start - 1, SkipLine(s, start) - 1)]
        ELSE NoMatch

\* trimmed.match(/"([^"]+)"\s*:\s*(.+)/): the leftmost match
MatchKeyValue(s) ==
    MatchKeyValueAt(s, MinOf({p \in 1..Len(s) : MatchKeyValueAt(s, p).matched}, 0))

RECURSIVE Decimal(_)
\* String(n) for a natural number n
Decimal(n) ==
    LET digit == <<"0", "1", "2", "3", "4", "5", "6", "7", "8", "9">>[(n % 10) + 1] IN
    IF n < 10 THEN <<digit>> ELSE Append(Decimal(n \div 10), digit)

\* String(v)
StringOf(v) ==
    CASE v.t = "undefined" -> <<"u", "n", "d", "e", "f", "i", "n", "e", "d">>
      [] v.t = "null" -> <<"n", "u", "l", "l">>
      [] v.t = "object" -> <<"[", "o", "b", "j", "e", "c", "t", SP, "O", "b", "j", "e", "c", "t", "]">>
      [] OTHER -> v.s

\* path.basename(filePath) on POSIX
Basename(filePath) ==
    LET RECURSIVE DropSlashes(_)
        DropSlashes(p) ==
            IF Len(p) > 1 /\ p[Len(p)] = "/" THEN DropSlashes(SubSeq(p, 1, Len(p) - 1)) ELSE p
        p == DropSlashes(filePath)
        slashes == {i \in 1..Len(p) : p[i] = "/"}
        lastSlash == IF slashes = {} THEN 0 ELSE CHOOSE i \in slashes : \A j \in slashes : j <= i
    IN  IF p = <<"/">> THEN <<>> ELSE Slice(p, lastSlash, Len(p))

(***************************************************************************)
(* ConflictResolver: fragments                                             *)
(***************************************************************************)
\* the value of a pair: what JSON.parse makes of its text, or the text
\* without its quotes when JSON.parse throws
LineValue(text, parsed) ==
    IF parsed.thrown THEN JStr(UnescapeQuotes(StripQuotes(text))) ELSE parsed.value

\* the properties after one line, trimmed, on which the pair pattern gave match
ParseLine(props, trimmed, match) ==
    IF Includes(trimmed, <<":">>) /\ match.matched
    THEN SetKey(props, match.key, LineValue(match.value, JSON_parse(match.value)))
    ELSE props

RECURSIVE ParseLines(_, _, _)
\* the key-value pairs read line by line when the fragment is not JSON
ParseLines(lines, i, props) ==
    IF i > Len(lines) THEN props
    ELSE ParseLines(lines, i + 1,
                    ParseLine(props, Trim(lines[i]), MatchKeyValue(Trim(lines[i]))))

\* the text handed to JSON.parse: the trimmed fragment, in braces when it
\* does not both start and end with one
Braced(trimmed) ==
    IF StartsWith(trimmed, <<"{">>) /\ EndsWith(trimmed, <<"}">>)
    THEN trimmed
    ELSE <<"{">> \o trimmed \o <<"}">>

\* what parseJSONFragment returns when JSON.parse gave whole and the
\* line-by-line reading, done when JSON.parse throws, gives result
FragmentValue(whole, result) ==
    IF ~whole.thrown THEN whole.value
    ELSE IF Len(result) > 0 THEN JObj(result) ELSE JNull

\* the object a fragment stands for, null when it has no key-value pair
parseJSONFragment(fragment) ==
    FragmentValue(JSON_parse(Braced(Trim(fragment))),
                  ParseLines(SplitNewline(fragment), 1, <<>>))

parseJSFragment(fragment) ==
    parseJSONFragment(
        DropFinalSemicolon(
            DropTrailingCommas(
                DropTrailingCommas(
                    QuoteKeys(ReplaceChar(Trim(fragment), APOSTROPHE, <<QUOTE>>)),
                    "}"),
                "]")))

\* the fragment text of an object: one line per top-level key, eight blanks deep
formatJSONFragment(data) ==
    IF ~Truthy(data) \/ TypeOf(data) # "object" THEN <<>>
    ELSE Join([i \in 1..Len(data.kv) |->
                  Rep(SP, FragmentIndent) \o <<QUOTE>> \o data.kv[i].k \o <<QUOTE, ":", SP>>
                      \o ReplaceChar(JSON_stringify(data.kv[i].v), LF,
                                     <<LF>> \o Rep(SP, FragmentIndent))],
              <<",", LF>>)

formatJSFragment(data) == formatJSONFragment(data)

(***************************************************************************)
(* ConflictResolver: the merge                                             *)
(***************************************************************************)
Spread_nothing(v) == <<>>

\* { ...(v || {}) }: the own properties of an object, the characters of a string
Spread(v) ==
    CASE v.t = "object" -> v.kv
      [] v.t = "string" -> [i \in 1..Len(v.s) |-> [k |-> Decimal(i - 1), v |-> JStr(<<v.s[i]>>)]]
      [] OTHER -> <<>>

\* v.name of an object v
Prop(v, name) == GetKey(v.kv, name)

\* the callback smartResolveMeta hands to deepMerge; reading a property of
\* null throws
metaResolver(key, ours, theirs) ==
    LET hashes == IF Truthy(Prop(ours, <<"h", "a", "s", "h">>)) /\ theirs.t = "null"
                  THEN Thrown ELSE Return(theirs)
    IN  IF TypeOf(ours) = "object" /\ TypeOf(theirs) = "object"
        THEN IF ours.t = "null" THEN Thrown
             ELSE IF ~Truthy(Prop(ours, <<"c", "o", "n", "t", "e", "n", "t">>)) THEN hashes
             ELSE IF theirs.t = "null" THEN Thrown
             ELSE IF /\ Truthy(Prop(theirs, <<"c", "o", "n", "t", "e", "n", "t">>))
                     /\ Prop(theirs, <<"c", "o", "n", "t", "e", "n", "t">>).t = "string"
                  THEN Return(IF /\ Prop(ours, <<"c", "o", "n", "t", "e", "n", "t">>).t = "string"
                                 /\ Len(Prop(theirs, <<"c", "o", "n", "t", "e", "n", "t">>).s)
                                        > Len(Prop(ours, <<"c", "o", "n", "t", "e", "n", "t">>).s)
                              THEN theirs ELSE ours)
             ELSE hashes
        ELSE Return(theirs)

RECURSIVE MergeLocales(_, _, _)
\* the loop over Object.entries(theirs) of the dictionary callback
MergeLocales(mergedContent, entries, i) ==
    IF i > Len(entries) THEN mergedContent
    ELSE LET locale == entries[i].k
             translation == entries[i].v
             current == GetKey(mergedContent, locale)
         IN  IF \/ ~Truthy(current)
                \/ /\ Truthy(translation)
                   /\ translation.t = "string"
                   /\ Len(Trim(translation.s)) > Len(Trim(StringOf(current)))
             THEN MergeLocales(SetKey(mergedContent, locale, translation), entries, i + 1)
             ELSE MergeLocales(mergedContent, entries, i + 1)

\* the callback smartResolveDictionary hands to deepMerge; Object.entries(null)
\* throws
dictionaryResolver(key, ours, theirs) ==
    IF key = <<"c", "o", "n", "t", "e", "n", "t">> /\ TypeOf(ours) = "object" /\ TypeOf(theirs) = "object"
    THEN IF theirs.t = "null" THEN Thrown
         ELSE Return(JObj(MergeLocales(Spread(ours), theirs.kv, 1)))
    ELSE Return(theirs)

\* resolver(key, target, source); resolver names the callback
CallResolver(resolver, key, target, source) ==
    IF resolver = "meta" THEN metaResolver(key, target, source)
    ELSE dictionaryResolver(key, target, source)

RECURSIVE deepMerge(_, _, _)
RECURSIVE MergeEntries(_, _, _, _)

\* the loop over Object.entries(source) of deepMerge
MergeEntries(result, entries, i, resolver) ==
    IF i > Len(entries) THEN Return(JObj(result))
    ELSE LET key == entries[i].k
             value == entries[i].v
             nested == deepMerge(GetKey(result, key), value, resolver)
             resolved == CallResolver(resolver, key, GetKey(result, key), value)
         IN  IF IsObject(value)
             THEN IF nested.thrown THEN Thrown
                  ELSE MergeEntries(SetKey(result, key, nested.value), entries, i + 1, resolver)
             ELSE IF resolver # "none" /\ HasKey(result, key)
             THEN IF resolved.thrown THEN Thrown
                  ELSE MergeEntries(SetKey(result, key, resolved.value), entries, i + 1, resolver)
             ELSE MergeEntries(SetKey(result, key, value), entries, i + 1, resolver)

\* deepMerge(target, source, resolver): the merged value, or what a callback threw
deepMerge(target, source, resolver) ==
    IF ~Truthy(source) \/ TypeOf(source) # "object" THEN Return(source)
    ELSE MergeEntries(Spread(target), source.kv, 1, resolver)

MergedOrOurs_theirs(conflict, merged, resolver) ==
    IF merged.thrown THEN conflict.theirs
    ELSE IF resolver = "meta" THEN formatJSONFragment(merged.value)
    ELSE formatJSFragment(merged.value)

\* the end of both smart merges: the merge formatted for the kind of file the
\* callback belongs to, or ours when the merge threw
MergedOrOurs(conflict, merged, resolver) ==
    IF merged.thrown THEN conflict.ours
    ELSE IF resolver = "meta" THEN formatJSONFragment(merged.value)
    ELSE formatJSFragment(merged.value)

MergeSides_bothTheirs(conflict, oursData, theirsData, resolver) ==
    IF ~Truthy(oursData) THEN conflict.theirs
    ELSE IF ~Truthy(theirsData) THEN conflict.ours
    ELSE MergedOrOurs(conflict, deepMerge(oursData, theirsData, resolver), resolver)

\* the body both smart merges share once the two sides are parsed
MergeSides(conflict, oursData, theirsData, resolver) ==
    IF ~Truthy(oursData) /\ ~Truthy(theirsData) THEN conflict.ours
    ELSE IF ~Truthy(oursData) THEN conflict.theirs
    ELSE IF ~Truthy(theirsData) THEN conflict.ours
    ELSE MergedOrOurs(conflict, deepMerge(oursData, theirsData, resolver), resolver)

smartResolveMeta(conflict) ==
    MergeSides(conflict, parseJSONFragment(conflict.ours),
               parseJSONFragment(conflict.theirs), "meta")

smartResolveDictionary(conflict) ==
    MergeSides(conflict, parseJSFragment(conflict.ours),
               parseJSFragment(conflict.theirs), "dictionary")

smartResolve(conflict, fileName) ==
    IF fileName = <<"m", "e", "t", "a", ".", "j", "s", "o", "n">> THEN smartResolveMeta(conflict)
    ELSE IF StartsWith(fileName, <<"d", "i", "c", "t", "i", "o", "n", "a", "r", "y", ".">>) THEN smartResolveDictionary(conflict)
    ELSE conflict.ours

resolveConflict_unresolved(conflict, filePath, strategy) ==
    Join(<<Rep("<", MarkerWidth) \o <<SP, "H">>, conflict.ours, Rep("=", MarkerWidth),
           conflict.theirs, Rep(">", MarkerWidth) \o <<SP, "t">>>>, <<LF>>)

resolveConflict_alwaysSmart(conflict, filePath, strategy) ==
    smartResolve(conflict, Basename(filePath))

resolveConflict(conflict, filePath, strategy) ==
    CASE strategy = <<"o", "u", "r", "s">> -> conflict.ours
      [] strategy = <<"t", "h", "e", "i", "r", "s">> -> conflict.theirs
      [] OTHER -> smartResolve(conflict, Basename(filePath))

(***************************************************************************)
(* ConflictResolver: validation                                            *)
(***************************************************************************)
\* content.replace(/^export\s+default\s+/, "")
DropExportDefault(s) ==
    LET a == Len(<<"e", "x", "p", "o", "r", "t">>)
        b == SkipSpace(s, a + 1)
        c == b + Len(<<"d", "e", "f", "a", "u", "l", "t">>) - 1
        d == SkipSpace(s, c + 1)
    IN  IF /\ StartsWith(s, <<"e", "x", "p", "o", "r", "t">>)
           /\ b > a + 1
           /\ Slice(s, b - 1, c) = <<"d", "e", "f", "a", "u", "l", "t">>
           /\ d > c + 1
        THEN Slice(s, d - 1, Len(s))
        ELSE s

\* content.replace(/;?\s*$/, "")
DropEnding(s) == DropFinalSemicolon(TrimEnd(s))

\* the text validateResolvedContent hands to JSON.parse for a dictionary file
jsonContent(text) ==
    DropTrailingCommas(
        DropTrailingCommas(
            QuoteKeys(ReplaceChar(DropEnding(DropExportDefault(text)),
                                  APOSTROPHE, <<QUOTE>>)),
            "}"),
        "]")

validateResolvedContent_anything(text, filePath) == TRUE

validateResolvedContent_json(text, filePath) == ~JSON_parse(text).thrown

\* whether validateResolvedContent returns valid: true
validateResolvedContent(text, filePath) ==
    IF Basename(filePath) = <<"m", "e", "t", "a", ".", "j", "s", "o", "n">> THEN ~JSON_parse(text).thrown
    ELSE IF StartsWith(Basename(filePath), <<"d", "i", "c", "t", "i", "o", "n", "a", "r", "y", ".">>)
         THEN ~JSON_parse(jsonContent(text)).thrown
    ELSE TRUE

(***************************************************************************)
(* Texts the parser is applied to: every text of up to MaxLines lines      *)
(* drawn from a pool of marker lines and ordinary lines, and longer texts  *)
(* made of up to MaxBlocks blocks, each a conflict or a piece of one.      *)
(***************************************************************************)
MaxLines == 4

StartLine == Rep("<", MarkerWidth) \o <<SP, "H">>

MiddleLine == Rep("=", MarkerWidth)

BaseLine == Rep("|", MarkerWidth) \o <<SP, "b">>

EndLine == Rep(">", MarkerWidth) \o <<SP, "t">>

TextLine == <<"a">>

\* no marker line, though it contains the three marker tokens
DecoyLine == Rep("<", MarkerWidth) \o Rep("=", MarkerWidth) \o Rep(">", MarkerWidth)

LinePool == {StartLine, MiddleLine, BaseLine, EndLine, TextLine, DecoyLine}

LineSeqs == UNION {[1..n -> LinePool] : n \in 0..MaxLines}

\* texts of up to MaxCrLfLines lines are also taken with Windows line endings
MaxCrLfLines == 3

MaxBlocks == 2

Blocks ==
    { <<StartLine, TextLine, MiddleLine, EndLine>>,
      <<StartLine, MiddleLine, DecoyLine, EndLine>>,
      <<StartLine, TextLine, BaseLine, TextLine, MiddleLine, EndLine>>,
      <<StartLine, MiddleLine, BaseLine, EndLine>>,
      <<StartLine, StartLine, MiddleLine, EndLine>>,
      <<StartLine, EndLine>>,
      <<TextLine>> }

Flatten(seqs) == Concat(seqs)

BlockSeqs == UNION {[1..n -> Blocks] : n \in 2..MaxBlocks}

Contents ==
    {Join(ls, <<LF>>) : ls \in LineSeqs}
        \cup {Join(ls, <<CR, LF>>) : ls \in {l \in LineSeqs : Len(l) <= MaxCrLfLines}}
        \cup {Join(Flatten(bs), <<LF>>) : bs \in BlockSeqs}

\* the resolver of the round-trip test: a fixed literal, free of marker tokens
Literal == <<"m">>

FixedResolver(text) == [conflict \in SectionsOf(text) |-> Return(Literal)]

\* the values of the variables an operation does not use
NoConflict == [ours |-> <<>>, theirs |-> <<>>]

NoOptions == [strategy |-> <<"s", "m", "a", "r", "t">>, verbose |-> FALSE, dryRun |-> TRUE, backup |-> FALSE]

NoFiles == [p \in {} |-> [text |-> <<>>, size |-> 0]]

NoResult == [success |-> FALSE, conflictsResolved |-> 0, error |-> <<>>, details |-> <<>>]

\* no command runs and no call is in progress
NoCommand ==
    /\ conflictedFiles = <<>>
    /\ processed = 0
    /\ resolvedCount = 0
    /\ failedCount = 0
    /\ running = <<>>
    /\ initial = NoFiles

InitParser ==
    /\ NoCommand
    /\ content \in Contents
    /\ called = "none"
    /\ returned = <<>>
    /\ section = NoConflict
    /\ path = <<>>
    /\ opts = NoOptions
    /\ disk = NoFiles
    /\ outcome = NoResult
    /\ trace = <<>>

HasConflictMarkers ==
    /\ called = "none"
    /\ called' = "hasConflictMarkers"
    /\ returned' = hasConflictMarkers(content)
    /\ UNCHANGED <<content, section, path, opts, disk, outcome, trace>>
    /\ UNCHANGED commandVars

ParseConflicts ==
    /\ called = "none"
    /\ called' = "parseConflicts"
    /\ returned' = parseConflicts(content)
    /\ UNCHANGED <<content, section, path, opts, disk, outcome, trace>>
    /\ UNCHANGED commandVars

ResolveConflicts ==
    /\ called = "none"
    /\ called' = "resolveConflicts"
    /\ returned' = resolveConflicts(content, FixedResolver(content))
    /\ UNCHANGED <<content, section, path, opts, disk, outcome, trace>>
    /\ UNCHANGED commandVars

NextParser == HasConflictMarkers \/ ParseConflicts \/ ResolveConflicts

SpecParser == InitParser /\ [][NextParser]_vars

(***************************************************************************)
(* Conflict sections resolveConflict is applied to: each side is up to     *)
(* MaxEntries entries of the file's format, one per line, or a fragment    *)
(* neither parser reads as it stands.                                      *)
(***************************************************************************)
MaxEntries == 2

\* scopes of a meta.json file
MetaEntries ==
    << <<QUOTE, "A", QUOTE, ":", SP, "{", QUOTE, "h", "a", "s", "h", QUOTE, ":", SP, QUOTE, "h", "1", QUOTE, ",", SP, QUOTE, "c", "o", "n", "t", "e", "n", "t", QUOTE, ":", SP, QUOTE, "l", "o", "n", "g", QUOTE, "}">>,
       <<QUOTE, "A", QUOTE, ":", SP, "{", QUOTE, "h", "a", "s", "h", QUOTE, ":", SP, QUOTE, "h", "2", QUOTE, ",", SP, QUOTE, "c", "o", "n", "t", "e", "n", "t", QUOTE, ":", SP, QUOTE, "s", QUOTE, "}">>,
       <<QUOTE, "A", QUOTE, ":", SP, "{", QUOTE, "h", "a", "s", "h", QUOTE, ":", SP, QUOTE, "h", "1", QUOTE, "}">>,
       <<QUOTE, "A", QUOTE, ":", SP, "n", "u", "l", "l">>,
       <<QUOTE, "B", QUOTE, ":", SP, "{", QUOTE, "h", "a", "s", "h", QUOTE, ":", SP, QUOTE, "h", "3", QUOTE, ",", SP, QUOTE, "c", "o", "n", "t", "e", "n", "t", QUOTE, ":", SP, QUOTE, "s", QUOTE, "}">> >>

\* entries of a dictionary file
DictionaryEntries ==
    << <<QUOTE, "s", "1", QUOTE, ":", SP, "{", "c", "o", "n", "t", "e", "n", "t", ":", SP, "{", "e", "n", ":", SP, QUOTE, "H", "e", "l", "l", "o", QUOTE, ",", SP, "e", "s", ":", SP, QUOTE, "O", "l", "a", QUOTE, "}", ",", SP, "h", "a", "s", "h", ":", SP, QUOTE, "h", "1", QUOTE, "}">>,
       <<QUOTE, "s", "1", QUOTE, ":", SP, "{", "c", "o", "n", "t", "e", "n", "t", ":", SP, "{", "e", "n", ":", SP, QUOTE, "H", "i", QUOTE, ",", SP, "f", "r", ":", SP, QUOTE, "O", "u", "i", QUOTE, "}", ",", SP, "h", "a", "s", "h", ":", SP, QUOTE, "h", "2", QUOTE, "}">>,
       <<QUOTE, "s", "1", QUOTE, ":", SP, "{", "c", "o", "n", "t", "e", "n", "t", ":", SP, "{", "e", "n", ":", SP, QUOTE, QUOTE, "}", ",", SP, "h", "a", "s", "h", ":", SP, QUOTE, "h", "1", QUOTE, "}">>,
       <<QUOTE, "s", "1", QUOTE, ":", SP, "{", "c", "o", "n", "t", "e", "n", "t", ":", SP, "n", "u", "l", "l", "}">>,
       <<QUOTE, "s", "2", QUOTE, ":", SP, "{", "c", "o", "n", "t", "e", "n", "t", ":", SP, "{", "e", "n", ":", SP, APOSTROPHE, "H", "i", APOSTROPHE, "}", ",", SP, "h", "a", "s", "h", ":", SP, QUOTE, "h", "3", QUOTE, "}">> >>

\* fragments that are no list of entries: plain words, and an entry that ends
\* in the comma that separates it from the text after the conflict
BrokenMeta == {<<"o", "o", "p", "s">>, <<"n", "o", "n", "e">>, <<QUOTE, "A", QUOTE, ":", SP, "{", QUOTE, "h", "a", "s", "h", QUOTE, ":", SP, QUOTE, "h", "1", QUOTE, "}", ",">>}

BrokenDictionary == {<<"o", "o", "p", "s">>, <<"n", "o", "n", "e">>, <<QUOTE, "s", "1", QUOTE, ":", SP, "{", "h", "a", "s", "h", ":", SP, QUOTE, "h", "1", QUOTE, "}", ",">>}

\* the entries at the chosen indices, in the order of the list
Chosen(entries, indices) ==
    SelectSeq([i \in 1..Len(entries) |-> IF i \in indices THEN entries[i] ELSE <<>>],
              LAMBDA e : e # <<>>)

Fragments(entries, broken) ==
    {Join(Chosen(entries, indices), <<",", LF>>) :
        indices \in {c \in SUBSET (1..Len(entries)) : Cardinality(c) <= MaxEntries}}
        \cup broken

Sides(fragments) == {[ours |-> o, theirs |-> t] : o \in fragments, t \in fragments}

META_JSON == <<"s", "r", "c", "/", "m", "e", "t", "a", ".", "j", "s", "o", "n">>

DICTIONARY_JS == <<"s", "r", "c", "/", "d", "i", "c", "t", "i", "o", "n", "a", "r", "y", ".", "j", "s">>

OTHER_FILE == <<"s", "r", "c", "/", "n", "o", "t", "e", "s", ".", "j", "s", "o", "n">>

Strategies == {<<"s", "m", "a", "r", "t">>, <<"o", "u", "r", "s">>, <<"t", "h", "e", "i", "r", "s">>}

MergeInputs ==
    {[conflict |-> c, filePath |-> META_JSON] :
        c \in Sides(Fragments(MetaEntries, BrokenMeta))}
    \cup {[conflict |-> c, filePath |-> DICTIONARY_JS] :
        c \in Sides(Fragments(DictionaryEntries, BrokenDictionary))}
    \cup {[conflict |-> c, filePath |-> OTHER_FILE] :
        c \in Sides(Fragments(MetaEntries, BrokenMeta))}

InitMerge ==
    /\ NoCommand
    /\ content = <<>>
    /\ called = "none"
    /\ returned = <<>>
    /\ \E input \in MergeInputs : section = input.conflict /\ path = input.filePath
    /\ opts \in [strategy : Strategies, verbose : {FALSE}, dryRun : {TRUE}, backup : {FALSE}]
    /\ disk = NoFiles
    /\ outcome = NoResult
    /\ trace = <<>>

ResolveConflict ==
    /\ called = "none"
    /\ called' = "resolveConflict"
    /\ returned' = resolveConflict(section, path, opts.strategy)
    /\ UNCHANGED <<content, section, path, opts, disk, outcome, trace>>
    /\ UNCHANGED commandVars

NextMerge == ResolveConflict

SpecMerge == InitMerge /\ [][NextMerge]_vars

(***************************************************************************)
(* resolveConflicts with any resolver callback.                            *)
(*                                                                         *)
(* The callback returns, for each section, a text of fewer, as many or     *)
(* more lines than the section, or throws.  The trace holds the calls of   *)
(* the callback in the order resolveConflicts made them: from the last     *)
(* section to the first, up to the first that throws.                      *)
(***************************************************************************)
MaxResolutionLines == 5

\* what a callback can return for a section
Resolutions ==
    {<<>>, Literal, <<"x", CR, LF, "y">>}
        \cup {Join([i \in 1..n |-> Literal], <<LF>>) : n \in {MaxResolutionLines}}

Outcomes == {Return(r) : r \in Resolutions} \cup {Thrown}

\* resolver(conflict), as the trace records it
ResolverCall(conflict, result) == [op |-> "resolver", conflict |-> conflict, outcome |-> result]

RECURSIVE Invocations(_, _, _)
\* the calls of the callback in the for loop of resolveConflicts, from conflict i
\* (one-based) down to the first
Invocations(conflicts, resolver, i) ==
    IF i < 1 THEN <<>>
    ELSE IF resolver[conflicts[i]].thrown
    THEN <<ResolverCall(conflicts[i], resolver[conflicts[i]])>>
    ELSE <<ResolverCall(conflicts[i], resolver[conflicts[i]])>>
             \o Invocations(conflicts, resolver, i - 1)

\* a call of resolveConflicts(content, resolver)
ResolveConflictsWith ==
    /\ called = "none"
    /\ \E resolver \in [SectionsOf(content) -> Outcomes] :
          /\ returned' = resolveConflicts(content, resolver)
          /\ trace' = Invocations(parseConflicts(content), resolver,
                                  Len(parseConflicts(content)))
    /\ called' = "resolveConflicts"
    /\ UNCHANGED <<content, section, path, opts, disk, outcome>>
    /\ UNCHANGED commandVars

NextSplice == ResolveConflictsWith

SpecSplice == InitParser /\ [][NextSplice]_vars

(***************************************************************************)
(* ConflictResolver.resolveFile                                            *)
(*                                                                         *)
(* A file is [text, size].  The size is the length of the text, or, for a  *)
(* file at or over the size ceiling, the size of the text followed by a    *)
(* last line of blanks, which no operation of the model tells from the     *)
(* text alone.                                                             *)
(***************************************************************************)
MAX_FILE_SIZE_exclusive == 10 * 1024 * 1024 - 1

MAX_FILE_SIZE == 10 * 1024 * 1024

Failure_counted(message) ==
    [success |-> FALSE, conflictsResolved |-> 1, error |-> <<message>>, details |-> <<>>]

Failure_detailed(message) ==
    [success |-> FALSE, conflictsResolved |-> 0, error |-> <<message>>,
     details |-> <<message>>]

\* a failed ResolutionResult
Failure(message) ==
    [success |-> FALSE, conflictsResolved |-> 0, error |-> <<message>>, details |-> <<>>]

\* the calls on the fs module
StatSync(filePath) == [op |-> "statSync", path |-> filePath, data |-> <<>>]

ReadFileSync(filePath) == [op |-> "readFileSync", path |-> filePath, data |-> <<>>]

WriteFileSync(filePath, data) == [op |-> "writeFileSync", path |-> filePath, data |-> data]

\* the file system after fs.writeFileSync(filePath, data)
Written(files, filePath, file) ==
    [p \in DOMAIN files \cup {filePath} |-> IF p = filePath THEN file ELSE files[p]]

BackupPath_shared(filePath, uuid) == <<"b", "a", "c", "k", "u", "p">>

\* `${filePath}.backup.${randomUUID()}`
BackupPath(filePath, uuid) == filePath \o <<".", "b", "a", "c", "k", "u", "p", ".">> \o uuid

getResolutionDetails(conflicts, filePath, strategy) ==
    <<"R", "e", "s", "o", "l", "v", "e", "d", SP>> \o Decimal(Len(conflicts)) \o <<SP, "c", "o", "n", "f", "l", "i", "c", "t", "(", "s", ")", SP, "i", "n", SP>>
        \o Basename(filePath) \o <<SP, "u", "s", "i", "n", "g", SP>> \o strategy \o <<SP, "s", "t", "r", "a", "t", "e", "g", "y">>

\* (conflict) => this.resolveConflict(conflict, filePath)
ResolverOf(text, filePath, strategy) ==
    [conflict \in SectionsOf(text) |-> Return(resolveConflict(conflict, filePath, strategy))]

\* the message of the SyntaxError JSON.parse throws; its wording is the engine's
SyntaxErrorMessage == <<"U", "n", "e", "x", "p", "e", "c", "t", "e", "d", SP, "t", "o", "k", "e", "n">>

\* the message of the error fs.statSync throws for a missing file
NoSuchFile == <<"E", "N", "O", "E", "N", "T", ":", SP, "n", "o", SP, "s", "u", "c", "h", SP, "f", "i", "l", "e", SP, "o", "r", SP, "d", "i", "r", "e", "c", "t", "o", "r", "y">>

BackedUp_dryRun(files, filePath, options, uuid) ==
    IF options.backup
    THEN [files |-> Written(files, BackupPath(filePath, uuid), files[filePath]),
          calls |-> <<StatSync(filePath), ReadFileSync(filePath),
                      WriteFileSync(BackupPath(filePath, uuid), files[filePath].text)>>]
    ELSE [files |-> files, calls |-> <<StatSync(filePath), ReadFileSync(filePath)>>]

BackedUp_never(files, filePath, options, uuid) ==
    [files |-> files, calls |-> <<StatSync(filePath), ReadFileSync(filePath)>>]

\* the calls resolveFile makes up to the backup, and the file system they leave
BackedUp(files, filePath, options, uuid) ==
    IF options.backup /\ ~options.dryRun
    THEN [files |-> Written(files, BackupPath(filePath, uuid), files[filePath]),
          calls |-> <<StatSync(filePath), ReadFileSync(filePath),
                      WriteFileSync(BackupPath(filePath, uuid), files[filePath].text)>>]
    ELSE [files |-> files, calls |-> <<StatSync(filePath), ReadFileSync(filePath)>>]

\* resolveFile after the backup, at, with the conflicts resolved as resolved
\* says: validation, the write of the file, and the result
ValidateAndWrite(at, filePath, options, conflicts, resolved) ==
    IF resolved.thrown
    THEN [files |-> at.files, calls |-> at.calls, result |-> Failure(<<"E", "r", "r", "o", "r">>)]
    ELSE IF ~validateResolvedContent(resolved.value, filePath)
    THEN [files |-> at.files, calls |-> at.calls,
          result |-> Failure(<<"I", "n", "v", "a", "l", "i", "d", SP, "s", "y", "n", "t", "a", "x", SP, "a", "f", "t", "e", "r", SP, "r", "e", "s", "o", "l", "u", "t", "i", "o", "n", ":", SP>> \o SyntaxErrorMessage)]
    ELSE [files |-> IF options.dryRun THEN at.files
                    ELSE Written(at.files, filePath,
                                 [text |-> resolved.value,
                                  size |-> at.files[filePath].size
                                               - Len(at.files[filePath].text)
                                               + Len(resolved.value)]),
          calls |-> at.calls \o (IF options.dryRun THEN <<>>
                                 ELSE <<WriteFileSync(filePath, resolved.value)>>),
          result |-> [success |-> TRUE, conflictsResolved |-> Len(conflicts),
                      error |-> <<>>,
                      details |-> IF options.verbose
                                  THEN <<getResolutionDetails(conflicts, filePath,
                                                              options.strategy)>>
                                  ELSE <<>>]]

ResolveParsed_unchecked(files, filePath, options, uuid, conflicts) ==
    ValidateAndWrite(BackedUp(files, filePath, options, uuid), filePath, options,
                     conflicts,
                     resolveConflicts(files[filePath].text,
                                      ResolverOf(files[filePath].text, filePath,
                                                 options.strategy)))

\* resolveFile on a text with conflict markers that parsed into conflicts
ResolveParsed(files, filePath, options, uuid, conflicts) ==
    IF Len(conflicts) = 0
    THEN [files |-> files, calls |-> <<StatSync(filePath), ReadFileSync(filePath)>>,
          result |-> Failure(<<"I", "n", "v", "a", "l", "i", "d", SP, "c", "o", "n", "f", "l", "i", "c", "t", SP, "m", "a", "r", "k", "e", "r", "s", SP, "d", "e", "t", "e", "c", "t", "e", "d">>)]
    ELSE ValidateAndWrite(BackedUp(files, filePath, options, uuid), filePath, options,
                          conflicts,
                          resolveConflicts(files[filePath].text,
                                           ResolverOf(files[filePath].text, filePath,
                                                      options.strategy)))

\* resolveFile(filePath) on the file system files, with the options of the
\* resolver and the identifier randomUUID() draws: the file system it leaves,
\* the fs calls it made, and the result it returns
resolveFile(files, filePath, options, uuid) ==
    IF filePath \notin DOMAIN files
    THEN [files |-> files, calls |-> <<StatSync(filePath)>>,
          result |-> Failure(NoSuchFile)]
    ELSE IF files[filePath].size > MAX_FILE_SIZE
    THEN [files |-> files, calls |-> <<StatSync(filePath)>>,
          result |-> Failure(<<"F", "i", "l", "e", SP, "t", "o", "o", SP, "l", "a", "r", "g", "e", ":", SP>> \o Decimal(files[filePath].size)
                                 \o <<SP, "b", "y", "t", "e", "s", SP, "(", "m", "a", "x", ":", SP>> \o Decimal(MAX_FILE_SIZE) \o <<")">>)]
    ELSE IF ~hasConflictMarkers(files[filePath].text)
    THEN [files |-> files, calls |-> <<StatSync(filePath), ReadFileSync(filePath)>>,
          result |-> [success |-> TRUE, conflictsResolved |-> 0, error |-> <<>>,
                      details |-> <<<<"N", "o", SP, "c", "o", "n", "f", "l", "i", "c", "t", "s", SP, "f", "o", "u", "n", "d">>>>]]
    ELSE ResolveParsed(files, filePath, options, uuid, parseConflicts(files[filePath].text))

(***************************************************************************)
(* Files resolveFile is applied to: the opening line of the format, up to  *)
(* MaxSections blocks of lines separated by a comma line, the closing line.*)
(* The first block is a conflict, a piece of one or an ordinary line; the  *)
(* blocks after it are well-formed conflicts or ordinary lines.            *)
(***************************************************************************)
MaxSections == 1

MaxCalls == 2

MaxSizedLines == 7

Conflict(ours, theirs) == <<StartLine, ours, MiddleLine, theirs, EndLine>>

\* the blocks of a file whose conflicts have the sides ours and theirs: an
\* ordinary line, conflicts, pieces of conflicts, a conflict whose sides are
\* the entries partial and nothing (the callback of the smart merge throws on
\* them), that conflict with a second one after it, and conflicts with a
\* start marker nested in them
BlocksOf(clean, ours, theirs, partial, nothing) ==
    { <<clean>>,
      <<DecoyLine>>,
      Conflict(ours, theirs),
      Conflict(partial, nothing),
      Conflict(partial, nothing) \o <<<<",">>>> \o Conflict(ours, theirs),
      Conflict(<<"o", "o", "p", "s">>, theirs),
      <<StartLine, ours, MiddleLine, theirs>>,
      <<StartLine, ours, EndLine>>,
      <<EndLine, MiddleLine, StartLine>>,
      <<StartLine, EndLine, StartLine, ours, MiddleLine, theirs, EndLine>>,
      <<StartLine, StartLine, ours, MiddleLine, BaseLine, theirs, EndLine, EndLine>>,
      <<StartLine, StartLine, MiddleLine, theirs, EndLine, MiddleLine, EndLine>> }

\* the blocks that follow the first block of a file
LaterBlocksOf(clean, ours, theirs) == {<<clean>>, Conflict(ours, theirs)}

Documents(open, first, later, close) ==
    {Join(<<open>> \o Flatten([i \in 1..(2 * Len(bs) - 1) |->
                                  IF i % 2 = 1 THEN bs[(i + 1) \div 2] ELSE <<<<",">>>>])
              \o <<close>>, <<LF>>) :
        bs \in UNION {{b \in [1..n -> first \cup later] :
                          b[1] \in first /\ \A i \in 2..n : b[i] \in later} :
                      n \in 1..MaxSections}}

MetaDocuments ==
    Documents(<<"{">>,
              BlocksOf(<<QUOTE, "C", QUOTE, ":", SP, "1">>, MetaEntries[1], MetaEntries[2],
                       MetaEntries[3], MetaEntries[4]),
              LaterBlocksOf(<<QUOTE, "C", QUOTE, ":", SP, "1">>, MetaEntries[1], MetaEntries[2]),
              <<"}">>)

DictionaryDocuments ==
    Documents(<<"e", "x", "p", "o", "r", "t", SP, "d", "e", "f", "a", "u", "l", "t", SP, "{">>,
              BlocksOf(<<"c", ":", SP, "1">>, DictionaryEntries[1], DictionaryEntries[2],
                       DictionaryEntries[3], DictionaryEntries[4]),
              LaterBlocksOf(<<"c", ":", SP, "1">>, DictionaryEntries[1], DictionaryEntries[2]),
              <<"}", ";">>)

\* a file of its own size, and, for the texts short enough, at and right over
\* the size ceiling
FilesOf(text) ==
    {[text |-> text, size |-> n] :
        n \in {Len(text)} \cup (IF Len(SplitLines(text)) <= MaxSizedLines
                                THEN {MAX_FILE_SIZE, MAX_FILE_SIZE + 1} ELSE {})}

ResolverInputs ==
    {[filePath |-> META_JSON, file |-> f] : f \in UNION {FilesOf(t) : t \in MetaDocuments}}
    \cup {[filePath |-> DICTIONARY_JS, file |-> f] :
            f \in UNION {FilesOf(t) : t \in DictionaryDocuments}}
    \cup {[filePath |-> OTHER_FILE, file |-> f] :
            f \in UNION {FilesOf(t) : t \in MetaDocuments}}

\* the identifiers randomUUID() can draw
UUIDs == {<<"u">> \o Decimal(n) : n \in 1..MaxCalls}

\* resolveFile calls made so far: each starts with fs.statSync
Calls == Cardinality({i \in DOMAIN trace : trace[i].op = "statSync"})

InitResolver ==
    /\ NoCommand
    /\ content = <<>>
    /\ called = "none"
    /\ returned = <<>>
    /\ section = NoConflict
    /\ \E input \in ResolverInputs :
          /\ path = input.filePath
          /\ disk \in {NoFiles, Written(NoFiles, input.filePath, input.file)}
    /\ opts \in [strategy : Strategies, verbose : BOOLEAN, dryRun : BOOLEAN, backup : BOOLEAN]
    /\ outcome = NoResult
    /\ trace = <<>>

\* the identifiers randomUUID() can draw in the next call: it is called for a
\* backup only, and never draws an identifier twice
DrawsFor(filePath) ==
    LET unused == {uuid \in UUIDs : BackupPath(filePath, uuid) \notin DOMAIN disk}
    IN  IF opts.backup /\ ~opts.dryRun THEN unused ELSE {CHOOSE uuid \in unused : TRUE}

\* a call of resolveFile(path)
ResolveFile ==
    /\ Calls < MaxCalls
    /\ \E uuid \in DrawsFor(path) :
          \E call \in {resolveFile(disk, path, opts, uuid)} :
             /\ disk' = call.files
             /\ outcome' = call.result
             /\ trace' = trace \o call.calls
    /\ called' = "resolveFile"
    /\ UNCHANGED <<content, returned, section, path, opts>>
    /\ UNCHANGED commandVars

NextResolver == ResolveFile

SpecResolver == InitResolver /\ [][NextResolver]_vars

(***************************************************************************)
(* resolveFile when the callback it hands to resolveConflicts throws.      *)
(*                                                                         *)
(* resolveConflict and the merges behind it catch what they raise, so the  *)
(* callback throws only when the method is replaced, as the tests of the   *)
(* repository replace private methods, or when the engine raises an error  *)
(* in it.  The callback of this call throws on the sections of throws and  *)
(* is resolveConflict on the others.  The trace holds the calls of the     *)
(* callback between the fs calls, and returned what resolveConflicts gave. *)
(***************************************************************************)
\* the resolver that throws on the sections of throws
ThrowingOn(throws, resolver) ==
    [conflict \in DOMAIN resolver |->
        IF conflict \in throws THEN Thrown ELSE resolver[conflict]]

\* the fs calls and callback calls of a resolveFile call, in the order made
CallsWith(at, whole, invocations) ==
    at.calls \o invocations \o SubSeq(whole.calls, Len(at.calls) + 1, Len(whole.calls))

\* a call of resolveFile(path) that reaches resolveConflicts, with a callback
\* that throws
ResolveFileThrowing ==
    /\ called = "none"
    /\ path \in DOMAIN disk
    /\ disk[path].size <= MAX_FILE_SIZE
    /\ hasConflictMarkers(disk[path].text)
    /\ parseConflicts(disk[path].text) # <<>>
    /\ \E uuid \in DrawsFor(path), throws \in (SUBSET SectionsOf(disk[path].text)) \ {{}} :
          \E resolver \in {ThrowingOn(throws, ResolverOf(disk[path].text, path,
                                                         opts.strategy))} :
             \E resolved \in {resolveConflicts(disk[path].text, resolver)},
                at \in {BackedUp(disk, path, opts, uuid)} :
                \E whole \in {ValidateAndWrite(at, path, opts,
                                               parseConflicts(disk[path].text), resolved)} :
                   /\ disk' = whole.files
                   /\ outcome' = whole.result
                   /\ returned' = resolved
                   /\ trace' = trace \o CallsWith(at, whole,
                                   Invocations(parseConflicts(disk[path].text), resolver,
                                               Len(parseConflicts(disk[path].text))))
    /\ called' = "resolveFile"
    /\ UNCHANGED <<content, section, path, opts>>
    /\ UNCHANGED commandVars

NextThrowing == ResolveFileThrowing

SpecThrowing == InitResolver /\ [][NextThrowing]_vars

(***************************************************************************)
(* The merge-resolve command: the loop over the conflicted files.          *)
(*                                                                         *)
(* findConflictedFiles returns the files whose content has conflict        *)
(* markers, in the order glob found them.  The loop hands each to          *)
(* resolver.resolveFile and counts the result; an exception inside the     *)
(* body of the loop is caught and counted as a failure.  The call the      *)
(* command makes is recorded in the trace before the fs calls it led to.   *)
(***************************************************************************)
MaxFiles == 2

\* the texts of a conflicted file: a conflict, a conflict with a side that is
\* no entry, and markers that give no section
CommandTexts(open, ours, theirs, close) ==
    {Join(<<open>> \o block \o <<close>>, <<LF>>) :
        block \in {Conflict(ours, theirs),
                   Conflict(<<"o", "o", "p", "s">>, theirs),
                   <<EndLine, MiddleLine, StartLine>>}}

\* the files findConflictedFiles can return, each with the texts it can hold
CommandFiles ==
    [p \in {META_JSON, DICTIONARY_JS, OTHER_FILE} |->
        IF p = DICTIONARY_JS
        THEN CommandTexts(<<"e", "x", "p", "o", "r", "t", SP, "d", "e", "f", "a", "u", "l", "t", SP, "{">>, DictionaryEntries[1],
                          DictionaryEntries[2], <<"}", ";">>)
        ELSE CommandTexts(<<"{">>, MetaEntries[1], MetaEntries[2], <<"}">>)]

\* the lists of up to MaxFiles distinct files
FileLists ==
    UNION {{list \in [1..n -> DOMAIN CommandFiles] :
               \A i, j \in 1..n : i # j => list[i] # list[j]} : n \in 0..MaxFiles}

\* the file systems that hold the files of the list and nothing else
DisksOf(list) ==
    LET paths == {list[i] : i \in DOMAIN list}
        all == UNION {CommandFiles[p] : p \in DOMAIN CommandFiles}
    IN  {[p \in paths |-> [text |-> texts[p], size |-> Len(texts[p])]] :
            texts \in {t \in [paths -> all] : \A p \in paths : t[p] \in CommandFiles[p]}}

\* resolver.resolveFile(filePath), as the trace records it
ResolveFileCall(filePath) == [op |-> "resolveFile", path |-> filePath, data |-> <<>>]

Counted_never(count, hit) == count

\* resolvedCount++ / failedCount++ in the branch taken
Counted(count, hit) == IF hit THEN count + 1 ELSE count

InitCommand ==
    /\ content = <<>>
    /\ called = "none"
    /\ returned = <<>>
    /\ section = NoConflict
    /\ path = <<>>
    /\ opts \in [strategy : Strategies, verbose : {FALSE}, dryRun : BOOLEAN, backup : BOOLEAN]
    /\ conflictedFiles \in FileLists
    /\ disk \in DisksOf(conflictedFiles)
    /\ outcome = NoResult
    /\ trace = <<>>
    /\ processed = 0
    /\ resolvedCount = 0
    /\ failedCount = 0
    /\ running = <<>>
    /\ initial = NoFiles

\* one turn of the loop in which resolveFile returns a result
ResolveNext ==
    /\ processed < Len(conflictedFiles)
    /\ \E uuid \in DrawsFor(conflictedFiles[processed + 1]) :
          \E call \in {resolveFile(disk, conflictedFiles[processed + 1], opts, uuid)} :
             /\ disk' = call.files
             /\ outcome' = call.result
             /\ trace' = trace \o <<ResolveFileCall(conflictedFiles[processed + 1])>>
                               \o call.calls
             /\ resolvedCount' = Counted(resolvedCount, call.result.success)
             /\ failedCount' = Counted(failedCount, ~call.result.success)
    /\ path' = conflictedFiles[processed + 1]
    /\ processed' = processed + 1
    /\ called' = "resolveFile"
    /\ UNCHANGED <<content, returned, section, opts, conflictedFiles, running, initial>>

\* one turn of the loop in which the call throws: the catch of the loop body
ResolveNextThrows ==
    /\ processed < Len(conflictedFiles)
    /\ trace' = trace \o <<ResolveFileCall(conflictedFiles[processed + 1])>>
    /\ failedCount' = Counted(failedCount, TRUE)
    /\ path' = conflictedFiles[processed + 1]
    /\ processed' = processed + 1
    /\ called' = "catch"
    /\ UNCHANGED <<content, returned, section, opts, disk, outcome, resolvedCount,
                   conflictedFiles, running, initial>>

NextCommand == ResolveNextThrows \/ ResolveNext

SpecCommand == InitCommand /\ [][NextCommand]_vars

\* the loop is sequential code: every awaited call returns or throws, and the
\* next turn follows
SpecCommandFair == SpecCommand /\ WF_vars(NextCommand)

(***************************************************************************)
(* Two resolveFile calls of one resolver, on different files, in flight at *)
(* the same time.                                                          *)
(*                                                                         *)
(* A call touches the file system in fs.statSync, fs.readFileSync and      *)
(* fs.writeFileSync; what it does between them is computed from what it    *)
(* has read, its options and the identifier it draws.  The calls are       *)
(* interleaved at each fs call, which covers callers that run them in one  *)
(* event loop, where a call runs to its end, and callers that run them in  *)
(* separate workers.  Each call keeps the fs calls it made; alone records  *)
(* that none of them was made while the other call was in flight.          *)
(***************************************************************************)
\* the pairs of different files
FilePairs == {list \in [1..2 -> DOMAIN CommandFiles] : list[1] # list[2]}

\* the file systems that hold the files of the list, or all but one of them
PartialDisksOf(list) ==
    DisksOf(list)
    \cup {[p \in DOMAIN files \ {gone} |-> files[p]] :
             gone \in {list[i] : i \in DOMAIN list}, files \in DisksOf(list)}

\* a call that has not begun
Started(filePath, uuid) ==
    [file |-> filePath, uuid |-> uuid, pc |-> "stat", size |-> 0, pending |-> <<>>,
     calls |-> <<>>, result |-> NoResult, alone |-> TRUE]

\* call i has made an fs call and has not returned
InFlight(i) == running[i].pc # "done" /\ running[i].calls # <<>>

\* what the call has read: its file with the size of stat and the text of read
ReadBy(call, text) == Written(NoFiles, call.file, [text |-> text, size |-> call.size])

\* the writes of a call that has read its file, each with the file it leaves
WritesOf(whole) ==
    [i \in 1..(Len(whole.calls) - 2) |->
        [call |-> whole.calls[i + 2], file |-> whole.files[whole.calls[i + 2].path]]]

\* the identifiers the two calls draw: randomUUID() is called for a backup
\* only, and never draws an identifier twice
DrawsOfTwo ==
    LET pairs == {d \in [1..2 -> UUIDs] : d[1] # d[2]}
    IN  IF opts.backup /\ ~opts.dryRun THEN pairs ELSE {CHOOSE d \in pairs : TRUE}

InitConcurrent ==
    /\ content = <<>>
    /\ called = "none"
    /\ returned = <<>>
    /\ section = NoConflict
    /\ path = <<>>
    /\ opts \in [strategy : Strategies, verbose : {FALSE}, dryRun : BOOLEAN, backup : BOOLEAN]
    /\ conflictedFiles \in FilePairs
    /\ disk \in PartialDisksOf(conflictedFiles)
    /\ initial = disk
    /\ outcome = NoResult
    /\ trace = <<>>
    /\ processed = 0
    /\ resolvedCount = 0
    /\ failedCount = 0
    /\ \E draws \in DrawsOfTwo :
          running = [i \in 1..2 |-> Started(conflictedFiles[i], draws[i])]

\* fs.statSync(filePath) of call i, and the size check
Stat(i) ==
    /\ running[i].pc = "stat"
    /\ IF running[i].file \notin DOMAIN disk \/ disk[running[i].file].size > MAX_FILE_SIZE
       THEN running' = [running EXCEPT
                ![i].pc = "done",
                ![i].alone = ~InFlight(3 - i),
                ![i].calls = <<StatSync(running[i].file)>>,
                ![i].result = resolveFile(disk, running[i].file, opts, running[i].uuid).result]
       ELSE running' = [running EXCEPT
                ![i].pc = "read",
                ![i].alone = ~InFlight(3 - i),
                ![i].calls = <<StatSync(running[i].file)>>,
                ![i].size = disk[running[i].file].size]
    /\ UNCHANGED <<content, called, returned, section, path, opts, disk, outcome, trace,
                   conflictedFiles, processed, resolvedCount, failedCount, initial>>

\* fs.readFileSync(filePath, "utf-8") of call i, and what the call computes
\* from the content up to its next fs call
Read(i) ==
    /\ running[i].pc = "read"
    /\ \E whole \in {resolveFile(ReadBy(running[i], disk[running[i].file].text),
                                 running[i].file, opts, running[i].uuid)} :
          running' = [running EXCEPT
              ![i].pc = IF Len(whole.calls) > 2 THEN "write" ELSE "done",
              ![i].alone = @ /\ ~InFlight(3 - i),
              ![i].calls = Append(@, ReadFileSync(running[i].file)),
              ![i].pending = WritesOf(whole),
              ![i].result = whole.result]
    /\ UNCHANGED <<content, called, returned, section, path, opts, disk, outcome, trace,
                   conflictedFiles, processed, resolvedCount, failedCount, initial>>

\* the next fs.writeFileSync of call i: the backup, or the resolved content
Write(i) ==
    /\ running[i].pc = "write"
    /\ disk' = Written(disk, running[i].pending[1].call.path, running[i].pending[1].file)
    /\ running' = [running EXCEPT
           ![i].pc = IF Len(running[i].pending) > 1 THEN "write" ELSE "done",
           ![i].alone = @ /\ ~InFlight(3 - i),
           ![i].calls = Append(@, running[i].pending[1].call),
           ![i].pending = Tail(@)]
    /\ UNCHANGED <<content, called, returned, section, path, opts, outcome, trace,
                   conflictedFiles, processed, resolvedCount, failedCount, initial>>

NextConcurrent == \E i \in 1..2 : Stat(i) \/ Read(i) \/ Write(i)

SpecConcurrent == InitConcurrent /\ [][NextConcurrent]_vars

(***************************************************************************)
(* Properties of the parser                                                *)
(***************************************************************************)
START_TOKEN == Rep("<", MarkerWidth)

MIDDLE_TOKEN == Rep("=", MarkerWidth)

END_TOKEN == Rep(">", MarkerWidth)

MarkerTokens == {START_TOKEN, MIDDLE_TOKEN, END_TOKEN}

\* zero-based indices of the lines that match each grammar
StartLinesOf(lines) == {i \in 0..(Len(lines) - 1) : CONFLICT_START(lines[i + 1])}

MiddleLinesOf(lines) == {i \in 0..(Len(lines) - 1) : CONFLICT_MIDDLE(lines[i + 1])}

BaseLinesOf(lines) == {i \in 0..(Len(lines) - 1) : CONFLICT_BASE(lines[i + 1])}

EndLinesOf(lines) == {i \in 0..(Len(lines) - 1) : CONFLICT_END(lines[i + 1])}

\* a start marker line, a middle marker line later, an end marker line later still
WellFormedRegion(lines) ==
    \E s \in StartLinesOf(lines), m \in MiddleLinesOf(lines), e \in EndLinesOf(lines) :
        s < m /\ m < e

BalancedCounts(lines) == Cardinality(StartLinesOf(lines)) = Cardinality(EndLinesOf(lines))

\* C2 as stated: hasConflictMarkers is true exactly for a text with a well-formed
\* region and as many start as end marker lines, and never for a text from which
\* parseConflicts extracts no section.
C2Original ==
    called = "hasConflictMarkers" =>
        LET lines == SplitLines(content) IN
        /\ returned <=> (WellFormedRegion(lines) /\ BalancedCounts(lines))
        /\ returned => parseConflicts(content) # <<>>

\* C2 amended: hasConflictMarkers is true exactly when the text has at least one
\* start, one middle and one end marker line, in any order, and as many start as
\* end marker lines; so it is false whenever the two counts differ and true for
\* every balanced text with a well-formed region.
C2Theorem ==
    called = "hasConflictMarkers" =>
        LET lines == SplitLines(content) IN
        /\ returned <=> /\ StartLinesOf(lines) # {}
                        /\ MiddleLinesOf(lines) # {}
                        /\ EndLinesOf(lines) # {}
                        /\ BalancedCounts(lines)
        /\ ~BalancedCounts(lines) => ~returned
        /\ (WellFormedRegion(lines) /\ BalancedCounts(lines)) => returned

\* the three markers are present and balanced but in no well-formed order
C2Witness ==
    /\ called = "hasConflictMarkers"
    /\ returned
    /\ ~WellFormedRegion(SplitLines(content))

\* exactly one start, one middle and one end marker line, in that order
OneConflict(lines) ==
    /\ Cardinality(StartLinesOf(lines)) = 1
    /\ Cardinality(MiddleLinesOf(lines)) = 1
    /\ Cardinality(EndLinesOf(lines)) = 1
    /\ WellFormedRegion(lines)

TheStart(lines) == CHOOSE i \in StartLinesOf(lines) : TRUE

TheMiddle(lines) == CHOOSE i \in MiddleLinesOf(lines) : TRUE

TheEnd(lines) == CHOOSE i \in EndLinesOf(lines) : TRUE

\* no base marker line between the start marker and the middle marker
NoBaseSection(lines) ==
    \A b \in BaseLinesOf(lines) : ~(TheStart(lines) < b /\ b < TheMiddle(lines))

\* C3: for a text with exactly one well-formed conflict without a base section,
\* parseConflicts returns exactly one section; its ours is the lines strictly
\* between the start and middle markers, its theirs the lines strictly between the
\* middle and end markers, startLine and endLine the indices of the two markers.
C3Claim ==
    called = "parseConflicts" =>
        LET lines == SplitLines(content) IN
        (OneConflict(lines) /\ NoBaseSection(lines)) =>
            /\ Len(returned) = 1
            /\ returned[1].ours =
                   Join(Slice(lines, TheStart(lines) + 1, TheMiddle(lines)), <<LF>>)
            /\ returned[1].theirs =
                   Join(Slice(lines, TheMiddle(lines) + 1, TheEnd(lines)), <<LF>>)
            /\ returned[1].startLine = TheStart(lines)
            /\ returned[1].endLine = TheEnd(lines)

\* exactly one conflict and no other marker line in the text
SingleConflict(lines) ==
    /\ OneConflict(lines)
    /\ BaseLinesOf(lines) = {}

\* the lines outside the one conflict
OutsideLines(lines) ==
    {lines[i + 1] : i \in {j \in 0..(Len(lines) - 1) :
                             j < TheStart(lines) \/ j > TheEnd(lines)}}

\* C4 as stated: resolving a single conflict with a resolver that returns a fixed
\* literal yields a text that contains the literal and none of the three marker
\* tokens.
C4Original ==
    called = "resolveConflicts" =>
        LET lines == SplitLines(content) IN
        SingleConflict(lines) =>
            /\ ~returned.thrown
            /\ Includes(returned.value, Literal)
            /\ \A token \in MarkerTokens : ~Includes(returned.value, token)

\* C4 amended: the result contains the literal, and it contains a marker token
\* only if a line outside the conflict already contained that token; the lines
\* outside the conflict are kept and the conflict is replaced by the literal.
C4Theorem ==
    called = "resolveConflicts" =>
        LET lines == SplitLines(content) IN
        SingleConflict(lines) =>
            /\ ~returned.thrown
            /\ Includes(returned.value, Literal)
            /\ \A token \in MarkerTokens :
                  Includes(returned.value, token) =>
                      \E line \in OutsideLines(lines) : Includes(line, token)
            /\ SplitLines(returned.value) =
                  Slice(lines, 0, TheStart(lines)) \o <<Literal>>
                      \o Slice(lines, TheEnd(lines) + 1, Len(lines))

\* a single conflict next to ordinary text, resolved to a marker-free text
C4Witness ==
    /\ called = "resolveConflicts"
    /\ SingleConflict(SplitLines(content))
    /\ Len(SplitLines(content)) > 3
    /\ Includes(returned.value, Literal)
    /\ \A token \in MarkerTokens : ~Includes(returned.value, token)

(***************************************************************************)
(* Properties of the merge                                                 *)
(***************************************************************************)
\* v.content
ContentOf(v) == Prop(v, <<"c", "o", "n", "t", "e", "n", "t">>)

IsMetaFile(filePath) == Basename(filePath) = <<"m", "e", "t", "a", ".", "j", "s", "o", "n">>

IsDictionaryFile(filePath) == StartsWith(Basename(filePath), <<"d", "i", "c", "t", "i", "o", "n", "a", "r", "y", ".">>)

\* C5: with strategy ours the replacement of a conflict section is exactly its
\* ours side, and with strategy theirs exactly its theirs side, for every file
\* name and whether or not a side is syntactically valid.
C5Theorem ==
    called = "resolveConflict" =>
        /\ opts.strategy = <<"o", "u", "r", "s">> => returned = section.ours
        /\ opts.strategy = <<"t", "h", "e", "i", "r", "s">> => returned = section.theirs

\* strategy ours on a meta.json conflict that the smart merge resolves to
\* another text
C5Witness ==
    /\ called = "resolveConflict"
    /\ opts.strategy = <<"o", "u", "r", "s">>
    /\ IsMetaFile(path)
    /\ smartResolve(section, Basename(path)) # section.ours
    /\ returned = section.ours

\* C6: in the metadata smart merge, when both fragments parse and both sides
\* define the same scope key with a string content, the merged scope has the
\* longer of the two contents, whichever side it is on.
C6Claim ==
    called = "resolveConflict" =>
        LET oursData == parseJSONFragment(section.ours)
            theirsData == parseJSONFragment(section.theirs)
            merged == parseJSONFragment(returned)
        IN  (/\ opts.strategy = <<"s", "m", "a", "r", "t">>
             /\ IsMetaFile(path)
             /\ IsObject(oursData)
             /\ IsObject(theirsData)) =>
                \A i \in DOMAIN oursData.kv :
                    LET key == oursData.kv[i].k
                        o == ContentOf(oursData.kv[i].v)
                        t == ContentOf(GetKey(theirsData.kv, key))
                        m == ContentOf(GetKey(merged.kv, key))
                    IN  (o.t = "string" /\ t.t = "string") =>
                            /\ Len(o.s) > Len(t.s) => m = o
                            /\ Len(t.s) > Len(o.s) => m = t

\* C7: in the dictionary smart merge, for a locale in the content map of the
\* same entry on both sides, a non-empty translation is preferred over an empty
\* one, and of two non-empty translations the one with the longer trimmed length
\* is in the merged entry, whichever side it is on.
C7Claim ==
    called = "resolveConflict" =>
        LET oursData == parseJSFragment(section.ours)
            theirsData == parseJSFragment(section.theirs)
            merged == parseJSFragment(returned)
        IN  (/\ opts.strategy = <<"s", "m", "a", "r", "t">>
             /\ IsDictionaryFile(path)
             /\ IsObject(oursData)
             /\ IsObject(theirsData)) =>
                \A i \in DOMAIN oursData.kv :
                    LET key == oursData.kv[i].k
                        o == ContentOf(oursData.kv[i].v)
                        t == ContentOf(GetKey(theirsData.kv, key))
                        m == ContentOf(GetKey(merged.kv, key))
                    IN  (IsObject(o) /\ IsObject(t)) =>
                            \A j \in DOMAIN o.kv :
                                LET locale == o.kv[j].k
                                    a == o.kv[j].v
                                    b == GetKey(t.kv, locale)
                                    kept == GetKey(m.kv, locale)
                                IN  (a.t = "string" /\ b.t = "string") =>
                                        /\ (a.s # <<>> /\ b.s = <<>>) => kept = a
                                        /\ (a.s = <<>> /\ b.s # <<>>) => kept = b
                                        /\ (/\ a.s # <<>>
                                            /\ b.s # <<>>
                                            /\ Len(Trim(a.s)) > Len(Trim(b.s))) => kept = a
                                        /\ (/\ a.s # <<>>
                                            /\ b.s # <<>>
                                            /\ Len(Trim(b.s)) > Len(Trim(a.s))) => kept = b

\* the object a side of a conflict of the file stands for
FragmentOf(text, filePath) ==
    IF IsMetaFile(filePath) THEN parseJSONFragment(text) ELSE parseJSFragment(text)

\* the callback the smart merge of the file hands to deepMerge
CallbackOf(filePath) == IF IsMetaFile(filePath) THEN "meta" ELSE "dictionary"

\* the call is a smart merge of two fragments that parse to objects
MergesObjects ==
    /\ called = "resolveConflict"
    /\ opts.strategy = <<"s", "m", "a", "r", "t">>
    /\ IsMetaFile(path) \/ IsDictionaryFile(path)
    /\ IsObject(FragmentOf(section.ours, path))
    /\ IsObject(FragmentOf(section.theirs, path))

RECURSIVE KeysKept(_, _, _)
\* every key of only one of the objects o and t is in m with the value it has
\* there, and so at every level below a key whose value is an object in both
KeysKept(o, t, m) ==
    /\ IsObject(m)
    /\ \A i \in DOMAIN o.kv :
          ~HasKey(t.kv, o.kv[i].k) =>
              /\ HasKey(m.kv, o.kv[i].k)
              /\ GetKey(m.kv, o.kv[i].k) = o.kv[i].v
    /\ \A i \in DOMAIN t.kv :
          ~HasKey(o.kv, t.kv[i].k) =>
              /\ HasKey(m.kv, t.kv[i].k)
              /\ GetKey(m.kv, t.kv[i].k) = t.kv[i].v
    /\ \A i \in DOMAIN o.kv :
          (IsObject(o.kv[i].v) /\ IsObject(GetKey(t.kv, o.kv[i].k))) =>
              KeysKept(o.kv[i].v, GetKey(t.kv, o.kv[i].k), GetKey(m.kv, o.kv[i].k))

\* C8 as stated: in both smart merges, when both fragments parse to objects,
\* every key present on only one side is in the merged result with its value
\* unchanged, at every nesting level.
C8Original ==
    MergesObjects =>
        KeysKept(FragmentOf(section.ours, path), FragmentOf(section.theirs, path),
                 FragmentOf(returned, path))

\* C8 amended: in both smart merges, when both fragments parse to objects and
\* the recursive merge completes without an exception, every key present on
\* only one side is in the merged result with its value unchanged, at every
\* nesting level; when the merge throws, the result is the ours side as it is.
C8Theorem ==
    MergesObjects =>
        LET o == FragmentOf(section.ours, path)
            t == FragmentOf(section.theirs, path)
        IN  IF deepMerge(o, t, CallbackOf(path)).thrown
            THEN returned = section.ours
            ELSE KeysKept(o, t, FragmentOf(returned, path))

\* a dictionary merge with an entry only theirs has, and an entry of both sides
\* whose content map has a locale only ours has and a locale only theirs has
C8Witness ==
    /\ MergesObjects
    /\ IsDictionaryFile(path)
    /\ LET o == FragmentOf(section.ours, path)
           t == FragmentOf(section.theirs, path)
           m == FragmentOf(returned, path)
       IN  /\ ~deepMerge(o, t, CallbackOf(path)).thrown
           /\ \E i \in DOMAIN t.kv : ~HasKey(o.kv, t.kv[i].k) /\ HasKey(m.kv, t.kv[i].k)
           /\ \E i \in DOMAIN o.kv :
                 LET oc == ContentOf(o.kv[i].v)
                     tc == ContentOf(GetKey(t.kv, o.kv[i].k))
                     mc == ContentOf(GetKey(m.kv, o.kv[i].k))
                 IN  /\ IsObject(oc)
                     /\ IsObject(tc)
                     /\ \E j \in DOMAIN oc.kv :
                           ~HasKey(tc.kv, oc.kv[j].k) /\ HasKey(mc.kv, oc.kv[j].k)
                     /\ \E j \in DOMAIN tc.kv :
                           ~HasKey(oc.kv, tc.kv[j].k) /\ HasKey(mc.kv, tc.kv[j].k)

(***************************************************************************)
(* Properties of resolveFile.  A step with trace' # trace is a call: every *)
(* call starts with fs.statSync.  The file the call is made on, before the *)
(* call, is disk[path].                                                    *)
(***************************************************************************)
\* the step is a call of resolveFile on a file that exists and is within the
\* size ceiling
CallOnFile ==
    /\ trace' # trace
    /\ path \in DOMAIN disk
    /\ disk[path].size <= MAX_FILE_SIZE

\* the fs calls of the step
NewCalls == SubSeq(trace', Len(trace) + 1, Len(trace'))

\* the step calls fs.writeFileSync
Writes == \E i \in DOMAIN NewCalls : NewCalls[i].op = "writeFileSync"

\* no line of the text matches one of the four marker grammars
NoMarkerLines(text) ==
    LET lines == SplitLines(text)
    IN  /\ StartLinesOf(lines) = {}
        /\ MiddleLinesOf(lines) = {}
        /\ BaseLinesOf(lines) = {}
        /\ EndLinesOf(lines) = {}

\* C1 as stated: for every content with no conflict-marker line,
\* hasConflictMarkers is false, resolveFile returns success with zero conflicts
\* resolved, and it writes neither the file nor a backup.
C1Original ==
    [][(/\ trace' # trace
        /\ path \in DOMAIN disk
        /\ NoMarkerLines(disk[path].text)) =>
            /\ ~hasConflictMarkers(disk[path].text)
            /\ outcome'.success
            /\ outcome'.conflictsResolved = 0
            /\ ~Writes
            /\ disk' = disk]_vars

\* C1 amended: for every file within the size ceiling whose content has no
\* conflict-marker line, hasConflictMarkers is false, resolveFile returns
\* success with zero conflicts resolved, and it writes neither the file nor a
\* backup.
C1Theorem ==
    [][(CallOnFile /\ NoMarkerLines(disk[path].text)) =>
            /\ ~hasConflictMarkers(disk[path].text)
            /\ outcome'.success
            /\ outcome'.conflictsResolved = 0
            /\ ~Writes
            /\ disk' = disk]_vars

\* a call, with backups on, on a file that holds the three marker tokens but no
\* marker line: it succeeds and the file is the only one on the disk
C1Witness ==
    /\ called = "resolveFile"
    /\ opts.backup
    /\ ~opts.dryRun
    /\ path \in DOMAIN disk
    /\ disk[path].size <= MAX_FILE_SIZE
    /\ NoMarkerLines(disk[path].text)
    /\ \A token \in MarkerTokens : Includes(disk[path].text, token)
    /\ outcome.success
    /\ outcome.conflictsResolved = 0
    /\ DOMAIN disk = {path}

\* the text resolveFile hands to validateResolvedContent
ResolvedContent(text, filePath, strategy) ==
    resolveConflicts(text, ResolverOf(text, filePath, strategy))

\* the text does not parse in the format of the file
FailsValidation(text, filePath) ==
    \/ IsMetaFile(filePath) /\ JSON_parse(text).thrown
    \/ IsDictionaryFile(filePath) /\ JSON_parse(jsonContent(text)).thrown

INVALID_SYNTAX == <<"I", "n", "v", "a", "l", "i", "d", SP, "s", "y", "n", "t", "a", "x", SP, "a", "f", "t", "e", "r", SP, "r", "e", "s", "o", "l", "u", "t", "i", "o", "n">>

\* C9: if the text produced by resolving all sections fails validation for the
\* format of the file, resolveFile returns success=false with an 'Invalid syntax
\* after resolution' error and does not write the target file, whose content
\* stays the input.
C9Theorem ==
    [][(/\ CallOnFile
        /\ hasConflictMarkers(disk[path].text)
        /\ parseConflicts(disk[path].text) # <<>>
        /\ ~ResolvedContent(disk[path].text, path, opts.strategy).thrown
        /\ FailsValidation(ResolvedContent(disk[path].text, path, opts.strategy).value,
                           path)) =>
            /\ ~outcome'.success
            /\ outcome'.conflictsResolved = 0
            /\ outcome'.error # <<>>
            /\ StartsWith(outcome'.error[1], INVALID_SYNTAX)
            /\ \A i \in DOMAIN NewCalls :
                  ~(NewCalls[i].op = "writeFileSync" /\ NewCalls[i].path = path)
            /\ path \in DOMAIN disk'
            /\ disk'[path] = disk[path]]_vars

\* a call that is to write the file, refused for the syntax of the resolved
\* text: the file still holds its conflict
C9Witness ==
    /\ called = "resolveFile"
    /\ ~opts.dryRun
    /\ outcome.error # <<>>
    /\ StartsWith(outcome.error[1], INVALID_SYNTAX)
    /\ path \in DOMAIN disk
    /\ parseConflicts(disk[path].text) # <<>>
    /\ FailsValidation(ResolvedContent(disk[path].text, path, opts.strategy).value, path)

\* some line is a start, middle or end marker, and the start and end markers
\* differ in number or some start marker has no middle marker with an end
\* marker after it
Malformed(text) ==
    LET lines == SplitLines(text)
    IN  /\ StartLinesOf(lines) \cup MiddleLinesOf(lines) \cup EndLinesOf(lines) # {}
        /\ \/ ~BalancedCounts(lines)
           \/ \E s \in StartLinesOf(lines) :
                 ~\E m \in MiddleLinesOf(lines), e \in EndLinesOf(lines) : s < m /\ m < e

\* C10: for content whose markers are present but not well-formed, resolveFile
\* returns success=false with the invalid-markers error and leaves the disk as
\* it is: it never reports success and never resolves a part of the content.
C10Claim ==
    [][(CallOnFile /\ Malformed(disk[path].text)) =>
            /\ ~outcome'.success
            /\ outcome'.error = <<<<"I", "n", "v", "a", "l", "i", "d", SP, "c", "o", "n", "f", "l", "i", "c", "t", SP, "m", "a", "r", "k", "e", "r", "s", SP, "d", "e", "t", "e", "c", "t", "e", "d">>>>
            /\ disk' = disk]_vars

INVALID_MARKERS == <<"I", "n", "v", "a", "l", "i", "d", SP, "c", "o", "n", "f", "l", "i", "c", "t", SP, "m", "a", "r", "k", "e", "r", "s", SP, "d", "e", "t", "e", "c", "t", "e", "d">>

\* C11: when hasConflictMarkers(content) is true but parseConflicts(content)
\* returns no section, resolveFile returns success=false, conflictsResolved=0
\* and the error 'Invalid conflict markers detected', and it writes neither the
\* file nor a backup.
C11Theorem ==
    [][(/\ CallOnFile
        /\ hasConflictMarkers(disk[path].text)
        /\ parseConflicts(disk[path].text) = <<>>) =>
            /\ ~outcome'.success
            /\ outcome'.conflictsResolved = 0
            /\ outcome'.error = <<INVALID_MARKERS>>
            /\ ~Writes
            /\ disk' = disk]_vars

\* a call, with backups on, on a file whose markers are detected and give no
\* section: it fails and the file is the only one on the disk
C11Witness ==
    /\ called = "resolveFile"
    /\ opts.backup
    /\ ~opts.dryRun
    /\ path \in DOMAIN disk
    /\ disk[path].size <= MAX_FILE_SIZE
    /\ hasConflictMarkers(disk[path].text)
    /\ parseConflicts(disk[path].text) = <<>>
    /\ outcome.error = <<INVALID_MARKERS>>
    /\ DOMAIN disk = {path}

NO_CONFLICTS_FOUND == <<"N", "o", SP, "c", "o", "n", "f", "l", "i", "c", "t", "s", SP, "f", "o", "u", "n", "d">>

\* C12 as stated: a result carries details only when the resolver is verbose
\* and the result is successful: for every call with verbose=false, and for
\* every failed call, the details field is absent.
C12Original ==
    [][(trace' # trace /\ (~opts.verbose \/ ~outcome'.success)) =>
            outcome'.details = <<>>]_vars

\* C12 amended: for every failed call the details field is absent, and for
\* every call with verbose=false it is absent or it is 'No conflicts found' on
\* a successful call that resolved no conflict.
C12Theorem ==
    [][(trace' # trace) =>
            /\ ~outcome'.success => outcome'.details = <<>>
            /\ ~opts.verbose =>
                  \/ outcome'.details = <<>>
                  \/ /\ outcome'.details = <<NO_CONFLICTS_FOUND>>
                     /\ outcome'.success
                     /\ outcome'.conflictsResolved = 0]_vars

\* a call with verbose=false that resolved a conflict and carries no details
C12Witness ==
    /\ called = "resolveFile"
    /\ ~opts.verbose
    /\ outcome.success
    /\ outcome.conflictsResolved > 0
    /\ outcome.details = <<>>

SMART == <<"s", "m", "a", "r", "t">>

\* the callback that answers every section of the text with its ours side
OursResolver(text) == [conflict \in SectionsOf(text) |-> Return(conflict.ours)]

\* the step is a call on a file whose markers are detected and give a section
CallOnConflicts ==
    /\ CallOnFile
    /\ hasConflictMarkers(disk[path].text)
    /\ parseConflicts(disk[path].text) # <<>>

\* C13: with strategy smart and a file whose base name is neither meta.json nor
\* starts with "dictionary.", every conflict section is replaced by its ours
\* side verbatim and no validation is applied: resolveFile succeeds whenever
\* it parsed at least one section, and the text it writes is the content with
\* each section replaced by its ours side.
C13Theorem ==
    [][(/\ CallOnConflicts
        /\ opts.strategy = SMART
        /\ ~IsMetaFile(path)
        /\ ~IsDictionaryFile(path)) =>
            /\ outcome'.success
            /\ outcome'.conflictsResolved = Len(parseConflicts(disk[path].text))
            /\ outcome'.error = <<>>
            /\ ~opts.dryRun =>
                  /\ disk'[path].text
                        = resolveConflicts(disk[path].text, OursResolver(disk[path].text)).value
                  /\ NewCalls[Len(NewCalls)]
                        = WriteFileSync(path, disk'[path].text)]_vars

\* a call with strategy smart on a file of another format wrote a text that is
\* not JSON: the ours side went in as it was
C13Witness ==
    /\ called = "resolveFile"
    /\ opts.strategy = SMART
    /\ ~opts.dryRun
    /\ path = OTHER_FILE
    /\ outcome.success
    /\ outcome.conflictsResolved > 0
    /\ path \in DOMAIN disk
    /\ Includes(disk[path].text, <<"o", "o", "p", "s">>)
    /\ JSON_parse(disk[path].text).thrown

\* the step is a call with strategy smart on a meta.json or dictionary file
\* whose markers are detected and give a section
SmartCall ==
    /\ CallOnConflicts
    /\ opts.strategy = SMART
    /\ IsMetaFile(path) \/ IsDictionaryFile(path)

\* the side of a section parses to something the smart merge goes on with
Parses(fragment, filePath) == Truthy(FragmentOf(fragment, filePath))

\* both sides of the section parse and the recursive merge of them throws
MergeThrows(conflict, filePath) ==
    /\ Parses(conflict.ours, filePath)
    /\ Parses(conflict.theirs, filePath)
    /\ deepMerge(FragmentOf(conflict.ours, filePath), FragmentOf(conflict.theirs, filePath),
                 CallbackOf(filePath)).thrown

\* the callback that answers every section of the text with its own smart merge
SmartResolver(text, filePath) ==
    [conflict \in SectionsOf(text) |-> Return(smartResolve(conflict, Basename(filePath)))]

\* no exception left the resolution of the conflicts: the call succeeded or
\* it was refused for the syntax of the resolved text
NothingThrown(result) ==
    \/ result.success
    \/ result.error # <<>> /\ StartsWith(result.error[1], INVALID_SYNTAX)

\* C14 as stated: a smart merge never throws out of the per-conflict
\* resolution: a section with a side that does not parse, or whose recursive
\* merge throws, resolves to its ours side as it is, and the other sections of
\* the file are still resolved by their own smart merge.
C14Original ==
    [][SmartCall =>
            /\ NothingThrown(outcome')
            /\ \A conflict \in SectionsOf(disk[path].text) :
                  (\/ ~Parses(conflict.ours, path)
                   \/ ~Parses(conflict.theirs, path)
                   \/ MergeThrows(conflict, path)) =>
                      resolveConflict(conflict, path, opts.strategy) = conflict.ours
            /\ (outcome'.success /\ ~opts.dryRun) =>
                  disk'[path].text
                      = resolveConflicts(disk[path].text,
                                         SmartResolver(disk[path].text, path)).value]_vars

\* C14 amended: a smart merge never throws out of the per-conflict resolution:
\* a section whose recursive merge throws, or whose theirs side does not
\* parse, resolves to its ours side as it is; a section whose ours side alone
\* does not parse resolves to its theirs side; and the other sections of the
\* file are still resolved by their own smart merge.
C14Theorem ==
    [][SmartCall =>
            /\ NothingThrown(outcome')
            /\ \A conflict \in SectionsOf(disk[path].text) :
                  /\ (MergeThrows(conflict, path) \/ ~Parses(conflict.theirs, path)) =>
                        resolveConflict(conflict, path, opts.strategy) = conflict.ours
                  /\ (~Parses(conflict.ours, path) /\ Parses(conflict.theirs, path)) =>
                        resolveConflict(conflict, path, opts.strategy) = conflict.theirs
            /\ (outcome'.success /\ ~opts.dryRun) =>
                  disk'[path].text
                      = resolveConflicts(disk[path].text,
                                         SmartResolver(disk[path].text, path)).value]_vars

\* a call with strategy smart and a backup resolved a file of two conflicts:
\* the merge of the first threw, and the file holds the ours side of the
\* first and, after it, the merge of the second, which is not its ours side
C14Witness ==
    /\ called = "resolveFile"
    /\ opts.strategy = SMART
    /\ outcome.success
    /\ outcome.conflictsResolved = 2
    /\ path \in DOMAIN disk
    /\ \E saved \in DOMAIN disk \ {path} :
          LET conflicts == parseConflicts(disk[saved].text)
          IN  /\ Len(conflicts) = 2
              /\ MergeThrows(conflicts[1], path)
              /\ ~MergeThrows(conflicts[2], path)
              /\ smartResolve(conflicts[2], Basename(path)) # conflicts[2].ours
              /\ \E i \in DOMAIN SplitLines(disk[path].text) :
                    /\ SplitLines(disk[path].text)[i] = conflicts[1].ours
                    /\ SubSeq(SplitLines(disk[path].text), i + 2,
                              i + 1 + Len(SplitLines(smartResolve(conflicts[2], Basename(path)))))
                          = SplitLines(smartResolve(conflicts[2], Basename(path)))

\* the result of the same call on the same disk without dryRun
NonDryRun(uuid) == resolveFile(disk, path, [opts EXCEPT !.dryRun = FALSE], uuid).result

\* C15: with dryRun=true resolveFile performs no write on any path of
\* execution: the target file is unchanged and no backup file is created, even
\* when backup=true, while the success flag and conflictsResolved it returns
\* are those of the corresponding non-dry run.
C15Theorem ==
    [][(trace' # trace /\ opts.dryRun) =>
            /\ ~Writes
            /\ disk' = disk
            /\ \A uuid \in UUIDs :
                  /\ outcome'.success = NonDryRun(uuid).success
                  /\ outcome'.conflictsResolved = NonDryRun(uuid).conflictsResolved]_vars

\* a dry run with backup=true resolved a conflict: the file still holds its
\* conflict and is the only one on the disk
C15Witness ==
    /\ called = "resolveFile"
    /\ opts.dryRun
    /\ opts.backup
    /\ outcome.success
    /\ outcome.conflictsResolved > 0
    /\ DOMAIN disk = {path}
    /\ parseConflicts(disk[path].text) # <<>>
    /\ \A i \in DOMAIN trace : trace[i].op # "writeFileSync"

\* C16: with backup=true and dryRun=false, whenever resolveFile overwrites the
\* target file, a backup file holding the content the file had before the call
\* was written earlier in the same call, at a path that differs from the
\* target path.
C16Theorem ==
    [][(trace' # trace /\ opts.backup /\ ~opts.dryRun) =>
            \A i \in DOMAIN NewCalls :
               (NewCalls[i].op = "writeFileSync" /\ NewCalls[i].path = path) =>
                   \E j \in 1..(i - 1) :
                      /\ NewCalls[j].op = "writeFileSync"
                      /\ NewCalls[j].path # path
                      /\ NewCalls[j].data = disk[path].text
                      /\ NewCalls[j].path \in DOMAIN disk'
                      /\ disk'[NewCalls[j].path].text = disk[path].text]_vars

\* a call with backup=true overwrote the file: the backup was written before
\* the file, it holds the conflict, and the file no longer does
C16Witness ==
    /\ called = "resolveFile"
    /\ opts.backup
    /\ ~opts.dryRun
    /\ outcome.success
    /\ outcome.conflictsResolved > 0
    /\ path \in DOMAIN disk
    /\ \E i, j \in DOMAIN trace :
          /\ j < i
          /\ trace[i] = WriteFileSync(path, disk[path].text)
          /\ trace[j].op = "writeFileSync"
          /\ trace[j].path # path
          /\ trace[j].path \in DOMAIN disk
          /\ disk[trace[j].path].text = trace[j].data
          /\ hasConflictMarkers(trace[j].data)
          /\ ~hasConflictMarkers(disk[path].text)

FILE_TOO_LARGE == <<"F", "i", "l", "e", SP, "t", "o", "o", SP, "l", "a", "r", "g", "e">>

\* the result is the rejection of a file over the size ceiling
TooLarge(result) ==
    /\ ~result.success
    /\ result.error # <<>>
    /\ StartsWith(result.error[1], FILE_TOO_LARGE)

\* C17: a file whose size exceeds the ceiling of 10 MiB is rejected with
\* success=false and a 'File too large' error before its content is read or
\* any marker detection or parsing is attempted, and nothing is written; a
\* file whose size equals the ceiling exactly is not rejected.
C17Theorem ==
    [][(trace' # trace /\ path \in DOMAIN disk) =>
            /\ disk[path].size > 10 * 1024 * 1024 =>
                  /\ TooLarge(outcome')
                  /\ outcome'.conflictsResolved = 0
                  /\ NewCalls = <<StatSync(path)>>
                  /\ disk' = disk
            /\ disk[path].size = 10 * 1024 * 1024 =>
                  /\ ~TooLarge(outcome')
                  /\ Len(NewCalls) >= 2
                  /\ NewCalls[2] = ReadFileSync(path)
                  /\ hasConflictMarkers(disk[path].text) =>
                        \/ outcome'.success
                        \/ outcome'.error = <<INVALID_MARKERS>>
                        \/ StartsWith(outcome'.error[1], INVALID_SYNTAX)]_vars

\* a call on a file one byte over the ceiling, which holds a conflict, was
\* rejected after fs.statSync alone
C17Witness ==
    /\ called = "resolveFile"
    /\ path \in DOMAIN disk
    /\ disk[path].size = 10 * 1024 * 1024 + 1
    /\ parseConflicts(disk[path].text) # <<>>
    /\ TooLarge(outcome)
    /\ trace # <<>>
    /\ \A i \in DOMAIN trace : trace[i] = StatSync(path)

(***************************************************************************)
(* Properties of the merge-resolve command                                 *)
(***************************************************************************)
\* the files handed to resolveFile so far, in the order of the calls
Passed ==
    LET calls == SelectSeq(trace, LAMBDA e : e.op = "resolveFile")
    IN  [i \in 1..Len(calls) |-> calls[i].path]

\* the files passed so far are the first of the list, and each was counted once
CountsInStep ==
    /\ processed <= Len(conflictedFiles)
    /\ Passed = SubSeq(conflictedFiles, 1, processed)
    /\ resolvedCount + failedCount = processed

\* the loop is over: every file was passed and counted
Finished ==
    /\ processed = Len(conflictedFiles)
    /\ Passed = conflictedFiles
    /\ resolvedCount + failedCount = Len(conflictedFiles)

AllDone == \A i \in 1..2 : running[i].pc = "done"

\* the two calls made one after the other on the initial file system, the
\* call first before the call second: the file system and the results
OneAfterTheOther(first, second) ==
    LET a == resolveFile(initial, running[first].file, opts, running[first].uuid)
        b == resolveFile(a.files, running[second].file, opts, running[second].uuid)
    IN  [files |-> b.files, results |-> (first :> a.result) @@ (second :> b.result)]

\* the fs calls of call i so far are on its file, or write its backup
OwnFilesOnly(i) ==
    \A k \in DOMAIN running[i].calls :
        \/ running[i].calls[k].path = running[i].file
        \/ /\ running[i].calls[k].op = "writeFileSync"
           /\ running[i].calls[k].path = BackupPath(running[i].file, running[i].uuid)

\* C19: two resolveFile calls on different files share no mutable state: however
\* their fs calls interleave, each returns the result, and the file system holds
\* the contents, that the two calls made one after the other give, in either
\* order; and every fs call of a call is on its own file or writes its own
\* backup.
C19Theorem ==
    /\ \A i \in 1..2 : OwnFilesOnly(i)
    /\ AllDone =>
          \A order \in {<<1, 2>>, <<2, 1>>} :
             \E sequential \in {OneAfterTheOther(order[1], order[2])} :
                /\ disk = sequential.files
                /\ \A i \in 1..2 : running[i].result = sequential.results[i]

\* both calls returned after each made a backup and wrote its file, each
\* having made an fs call while the other was in flight
C19Witness ==
    /\ AllDone
    /\ \A i \in 1..2 :
          /\ running[i].result.success
          /\ ~running[i].alone
          /\ running[i].calls =
                 <<StatSync(running[i].file), ReadFileSync(running[i].file),
                   WriteFileSync(BackupPath(running[i].file, running[i].uuid),
                                 initial[running[i].file].text),
                   WriteFileSync(running[i].file, disk[running[i].file].text)>>
          /\ disk[running[i].file].text # initial[running[i].file].text

(***************************************************************************)
(* Properties of parseConflicts on incomplete and nested candidates        *)
(***************************************************************************)
\* a line of the text is a start marker line
StartInside(text) ==
    \E i \in DOMAIN SplitLines(text) : CONFLICT_START(SplitLines(text)[i])

\* the start marker at line s has its middle marker and, after it, its end
\* marker before the end of the text and before another start marker
Complete(lines, s) ==
    \E m \in MiddleLinesOf(lines), e \in EndLinesOf(lines) :
        /\ s < m
        /\ m < e
        /\ \A j \in StartLinesOf(lines) : ~(s < j /\ j < e)

\* C20: parseConflicts discards the candidate a start marker opens when its
\* middle or end marker is missing before the end of the text or before a nested
\* start marker, and goes on at the next line: no returned section begins at such
\* a start marker or holds a start marker line in its ours or theirs, and a
\* well-formed conflict after a discarded start marker is returned.
C20Claim ==
    called = "parseConflicts" =>
        LET lines == SplitLines(content) IN
        /\ \A k \in DOMAIN returned :
              /\ ~StartInside(returned[k].ours)
              /\ ~StartInside(returned[k].theirs)
              /\ Complete(lines, returned[k].startLine)
        /\ \A d, s \in StartLinesOf(lines) :
              (d < s /\ ~Complete(lines, d) /\ Complete(lines, s)) =>
                  \E k \in DOMAIN returned : returned[k].startLine = s


(***************************************************************************)
(* Properties of the sections parseConflicts returns                       *)
(***************************************************************************)
\* C21: for every text the sections parseConflicts returns are in document order
\* and do not overlap: each has startLine < endLine, and each begins after the
\* end of the one before it.
C21Theorem ==
    called = "parseConflicts" =>
        \A k \in DOMAIN returned :
            /\ returned[k].startLine < returned[k].endLine
            /\ k > 1 => returned[k].startLine > returned[k - 1].endLine

\* two sections were returned for a text in which a start marker line lies
\* inside the first
C21Witness ==
    /\ called = "parseConflicts"
    /\ Len(returned) = 2
    /\ \E j \in StartLinesOf(SplitLines(content)) :
          returned[1].startLine < j /\ j < returned[1].endLine


\* the middle marker lines and the end marker lines within a section
MiddleLinesIn(lines, conflict) ==
    {j \in MiddleLinesOf(lines) : conflict.startLine <= j /\ j <= conflict.endLine}

EndLinesIn(lines, conflict) ==
    {j \in EndLinesOf(lines) : conflict.startLine <= j /\ j <= conflict.endLine}

\* C22 as stated: every section parseConflicts returns spans exactly one middle
\* marker line and exactly one end marker line, the one at endLine.
C22Original ==
    called = "parseConflicts" =>
        \A k \in DOMAIN returned :
            /\ Cardinality(MiddleLinesIn(SplitLines(content), returned[k])) = 1
            /\ EndLinesIn(SplitLines(content), returned[k]) = {returned[k].endLine}

\* C22: every section parseConflicts returns spans exactly one end marker line,
\* the one at endLine, and at least one middle marker line; the first of them is
\* the middle marker of the section, and a later line of the middle grammar is a
\* line of theirs.
C22Theorem ==
    called = "parseConflicts" =>
        LET lines == SplitLines(content) IN
        \A k \in DOMAIN returned :
            /\ EndLinesIn(lines, returned[k]) = {returned[k].endLine}
            /\ MiddleLinesIn(lines, returned[k]) # {}
            /\ \E m \in MiddleLinesIn(lines, returned[k]) :
                  /\ \A j \in MiddleLinesIn(lines, returned[k]) : m <= j
                  /\ returned[k].startLine < m
                  /\ returned[k].theirs = Join(Slice(lines, m + 1, returned[k].endLine), <<LF>>)

\* a section was returned that spans two middle marker lines; the second is its
\* theirs
C22Witness ==
    /\ called = "parseConflicts"
    /\ Len(returned) = 1
    /\ Cardinality(MiddleLinesIn(SplitLines(content), returned[1])) = 2
    /\ returned[1].theirs = MiddleLine


\* the middle marker of a section: the first middle marker line it spans
MiddleOf(lines, conflict) ==
    CHOOSE m \in MiddleLinesIn(lines, conflict) :
        \A j \in MiddleLinesIn(lines, conflict) : m <= j

\* the base marker lines between the start marker and the middle marker
BaseLinesBefore(lines, conflict) ==
    {b \in BaseLinesOf(lines) : conflict.startLine < b /\ b < MiddleOf(lines, conflict)}

\* C23: the fields of a section parseConflicts returns come from disjoint ranges
\* of lines without the marker lines: base is present only when a base marker
\* line lies between the start and the middle marker, and is then the lines
\* between the base and the middle marker; ours is the lines between the start
\* marker and the base marker if there is one, else the middle marker; theirs is
\* the lines between the middle and the end marker.
C23Claim ==
    called = "parseConflicts" =>
        LET lines == SplitLines(content) IN
        \A k \in DOMAIN returned :
            LET m == MiddleOf(lines, returned[k])
                bases == BaseLinesBefore(lines, returned[k])
                b == IF bases = {} THEN m
                     ELSE CHOOSE i \in bases : \A j \in bases : i <= j
            IN  /\ (returned[k].base # <<>>) <=> (bases # {})
                /\ bases # {} => returned[k].base = <<Join(Slice(lines, b + 1, m), <<LF>>)>>
                /\ returned[k].ours = Join(Slice(lines, returned[k].startLine + 1, b), <<LF>>)
                /\ returned[k].theirs = Join(Slice(lines, m + 1, returned[k].endLine), <<LF>>)


(***************************************************************************)
(* Properties of resolveConflicts with any resolver                        *)
(***************************************************************************)
\* what the callback returned for the section, in a call in which none threw
ResolutionOf(conflict) ==
    trace[CHOOSE i \in DOMAIN trace : trace[i].conflict = conflict].outcome.value

RECURSIVE Replaced(_, _, _, _)
\* the lines from line from on, with the lines of each section from conflict k
\* on replaced by the lines of its resolution
Replaced(lines, conflicts, k, from) ==
    IF k > Len(conflicts) THEN Slice(lines, from, Len(lines))
    ELSE Slice(lines, from, conflicts[k].startLine)
             \o SplitLines(ResolutionOf(conflicts[k]))
             \o Replaced(lines, conflicts, k + 1, conflicts[k].endLine + 1)

\* C24: resolveConflicts replaces exactly the lines [startLine, endLine] of each
\* section by the lines of what the resolver returned for it, and leaves every
\* other line as it was and where it was, for any number of sections and for
\* resolutions of more or fewer lines than the section.
C24Theorem ==
    (called = "resolveConflicts" /\ ~returned.thrown) =>
        /\ Len(trace) = Len(parseConflicts(content))
        /\ returned.value =
               Join(Replaced(SplitLines(content), parseConflicts(content), 1, 0), <<LF>>)

\* a text with two sections was resolved: the first by a text of more lines than
\* the section, the second by a text of fewer lines
C24Witness ==
    /\ called = "resolveConflicts"
    /\ ~returned.thrown
    /\ Len(trace) = 2
    /\ Len(SplitLines(trace[2].outcome.value))
           > trace[2].conflict.endLine - trace[2].conflict.startLine + 1
    /\ Len(SplitLines(trace[1].outcome.value))
           < trace[1].conflict.endLine - trace[1].conflict.startLine + 1


(***************************************************************************)
(* Properties of resolveFile with a callback that throws                   *)
(***************************************************************************)
\* the callback threw in the call just made
CallbackThrew(calls) ==
    \E i \in DOMAIN calls : calls[i].op = "resolver" /\ calls[i].outcome.thrown

\* C25: if the per-section resolver throws for a section, the whole operation
\* fails with no partial write: resolveConflicts returns no text, resolveFile
\* returns success=false with conflictsResolved=0 and an error, and the file is
\* not written, though the callback had resolved other sections before.
C25Theorem ==
    [][(called' = "resolveFile" /\ CallbackThrew(trace')) =>
            /\ returned'.thrown
            /\ ~outcome'.success
            /\ outcome'.conflictsResolved = 0
            /\ outcome'.error # <<>>
            /\ disk'[path] = disk[path]
            /\ \A i \in DOMAIN trace' :
                  trace'[i].op = "writeFileSync" => trace'[i].path # path]_vars

\* the callback resolved the second section of a file and threw on the first,
\* after the backup of the file was written
C25Witness ==
    /\ called = "resolveFile"
    /\ Len(trace) = 5
    /\ trace[3].op = "writeFileSync"
    /\ trace[4].op = "resolver" /\ ~trace[4].outcome.thrown
    /\ trace[5].op = "resolver" /\ trace[5].outcome.thrown
    /\ trace[5].conflict.startLine < trace[4].conflict.startLine
    /\ returned.thrown
    /\ ~outcome.success


(***************************************************************************)
(* Properties of the smart merges on sides that do not parse               *)
(***************************************************************************)
\* the call is a smart merge of a section of a meta.json or dictionary file
SmartMerge ==
    /\ called = "resolveConflict"
    /\ opts.strategy = SMART
    /\ IsMetaFile(path) \/ IsDictionaryFile(path)

\* C26: in a smart merge, when exactly one side of the section does not parse the
\* result is the text of the side that parsed, as it is, and when neither side
\* parses the result is the ours side as it is; nothing merged or printed anew
\* is returned then.
C26Theorem ==
    SmartMerge =>
        /\ (~Parses(section.ours, path) /\ ~Parses(section.theirs, path)) =>
              returned = section.ours
        /\ (~Parses(section.ours, path) /\ Parses(section.theirs, path)) =>
              returned = section.theirs
        /\ (Parses(section.ours, path) /\ ~Parses(section.theirs, path)) =>
              returned = section.ours

\* a smart merge of a section neither side of which parses returned the ours
\* side, which is not the theirs side
C26Witness ==
    /\ SmartMerge
    /\ ~Parses(section.ours, path)
    /\ ~Parses(section.theirs, path)
    /\ section.ours # section.theirs
    /\ returned = section.ours


(***************************************************************************)
(* Properties of resolveFile on a failed validation                        *)
(***************************************************************************)
\* the call of the step ended with the 'Invalid syntax after resolution' error
SyntaxFailure(result) ==
    /\ ~result.success
    /\ result.error # <<>>
    /\ StartsWith(result.error[1], INVALID_SYNTAX)

\* C27: on a syntax failure after resolution nothing is written, whatever the
\* options, backup=true with dryRun=false included: the call has made no
\* fs.writeFileSync, on the file or on a backup path.
C27Claim ==
    [][(trace' # trace /\ SyntaxFailure(outcome')) =>
            /\ ~Writes
            /\ disk' = disk]_vars


(***************************************************************************)
(* Properties of the ResolutionResult                                      *)
(***************************************************************************)
\* C28: in every ResolutionResult conflictsResolved is the number of sections
\* parseConflicts returns when the call succeeded after a resolution, and 0 on
\* every failure: file too large, invalid markers, failed validation, caught
\* exception; a failed result always carries an error and a successful one never.
C28Theorem ==
    [][(trace' # trace) =>
            /\ outcome'.success =>
                  /\ outcome'.error = <<>>
                  /\ path \in DOMAIN disk
                  /\ outcome'.conflictsResolved =
                         IF hasConflictMarkers(disk[path].text)
                         THEN Len(parseConflicts(disk[path].text))
                         ELSE 0
                  /\ hasConflictMarkers(disk[path].text) => outcome'.conflictsResolved > 0
            /\ ~outcome'.success =>
                  /\ outcome'.conflictsResolved = 0
                  /\ Len(outcome'.error) = 1
                  /\ outcome'.error[1] # <<>>
            /\ (\/ path \notin DOMAIN disk
                \/ disk[path].size > 10 * 1024 * 1024
                \/ /\ hasConflictMarkers(disk[path].text)
                   /\ parseConflicts(disk[path].text) = <<>>) => ~outcome'.success]_vars

\* a call resolved the two conflicts of a file and wrote it: the result counts
\* two and carries no error
C28Witness ==
    /\ called = "resolveFile"
    /\ outcome.success
    /\ outcome.conflictsResolved = 2
    /\ outcome.error = <<>>
    /\ \E i \in DOMAIN trace : trace[i].op = "writeFileSync" /\ trace[i].path = path
    /\ parseConflicts(disk[path].text) = <<>>


(***************************************************************************)
(* Properties of a second call on a resolved file                          *)
(***************************************************************************)
\* the marker lines of a section: its start, middle and end marker, and its base
\* marker when one lies between the start and the middle marker
MarkersOf(lines, conflict) ==
    {conflict.startLine, MiddleOf(lines, conflict), conflict.endLine}
        \cup {b \in BaseLinesBefore(lines, conflict) :
                 \A j \in BaseLinesBefore(lines, conflict) : b <= j}

\* every marker line of the text is a marker of a section parseConflicts
\* returns: none is nested in a side or stands outside the sections
OnlySectionMarkers(text) ==
    LET lines == SplitLines(text)
        conflicts == parseConflicts(text)
    IN  \A j \in StartLinesOf(lines) \cup MiddleLinesOf(lines)
                    \cup BaseLinesOf(lines) \cup EndLinesOf(lines) :
            \E k \in DOMAIN conflicts : j \in MarkersOf(lines, conflicts[k])

\* the step is a call that succeeded, resolved a conflict and wrote the file
Resolved ==
    /\ trace' # trace
    /\ outcome'.success
    /\ outcome'.conflictsResolved > 0
    /\ ~opts.dryRun

\* the file the step wrote holds no conflict, and a call on it succeeds with
\* conflictsResolved = 0 and changes nothing
NothingLeft ==
    /\ ~hasConflictMarkers(disk'[path].text)
    /\ parseConflicts(disk'[path].text) = <<>>
    /\ \A uuid \in UUIDs :
          \E again \in {resolveFile(disk', path, opts, uuid)} :
             /\ again.result.success
             /\ again.result.conflictsResolved = 0
             /\ again.files = disk'

====
